---- MODULE Spec2Model ----
(***************************************************************************)
(* Round engine of the blackjack table: Deck, Player, PlayerManager,       *)
(* BlackjackGame, the deferred callbacks of BlackjackGame.advanceTurn and  *)
(* NPCAgent, and the bet handler of BlackjackTable.                        *)
(*                                                                         *)
(* Every method is an operator from an engine state record to the engine   *)
(* state record after the call, so that a method calling another method    *)
(* (hit -> stand -> advanceTurn -> evaluateGame) is one atomic action, as  *)
(* in the single-threaded program.  Deferred callbacks (setTimeout) are    *)
(* pending timers that fire as actions of their own.                       *)
(*                                                                         *)
(* Not modelled: Player.name, Player.score (always the best total last     *)
(* computed), lastBet, lastAnte and winLossRatio (written, never read by   *)
(* the engine), log message texts, persistence and rendering.              *)
(***************************************************************************)
EXTENDS Integers, Sequences, FiniteSets, TLC

(***************************************************************************)
(* Bounds of the model                                                     *)
(***************************************************************************)
\* start() may be called while round < MaxRounds
MaxRounds == 2
\* Math.random() ranges over the first NumRandom values of RandomList
NumRandom == 3
\* the first MaxRandomSteps iterations of shuffle draw a free random value,
\* the remaining iterations draw 51/52
MaxRandomSteps == 2
\* pending deferred callbacks per (source, participant)
MaxTimers == 1
\* rounds followed by the ledger specification
MaxLedgerRounds == 1
\* successful bets placed through PlayerManager.placeBet or the bet handler
MaxBets == 1
\* length of the winner lists passed to awardPot
MaxWinners == 2
\* a hand that is evaluated holds at most MaxHandLen cards
MaxHandLen == 4
\* busts and blackjacks recorded per participant while rotating turns
MaxMarks == 1
\* seats in the turn order while the roster is edited
MaxSeats == 3

(***************************************************************************)
(* Program constants                                                       *)
(***************************************************************************)
\* bank: Infinity of the dealer
Infinity == 1000000000
DEFAULT_BANK == 1000
DEFAULT_ANTE == 10

IsInfinite(x) == x >= Infinity
\* IEEE arithmetic on amounts one of which may be Infinity
Plus(a, b) == IF IsInfinite(a) \/ IsInfinite(b) THEN Infinity ELSE a + b
Minus(a, b) == IF IsInfinite(a) THEN Infinity ELSE a - b

(***************************************************************************)
(* Card and Deck                                                           *)
(***************************************************************************)
Suit == <<"hearts", "diamonds", "clubs", "spades">>
Rank == <<"A", "2", "3", "4", "5", "6", "7", "8", "9", "10", "J", "Q", "K">>

Card(suit, rank) == [suit |-> suit, rank |-> rank]

\* parseInt(rank) of a numeric rank
parseInt(rank) ==
  CASE rank = "2" -> 2 [] rank = "3" -> 3 [] rank = "4" -> 4
    [] rank = "5" -> 5 [] rank = "6" -> 6 [] rank = "7" -> 7
    [] rank = "8" -> 8 [] rank = "9" -> 9 [] rank = "10" -> 10

getValue(card) ==
  CASE card.rank = "A" -> 11
    [] card.rank \in {"J", "Q", "K"} -> 10
    [] OTHER -> parseInt(card.rank)

\* Deck.initialize: suits outer, ranks inner
initialize ==
  [k \in 1..(Len(Suit) * Len(Rank)) |->
     Card(Suit[((k - 1) \div Len(Rank)) + 1], Rank[((k - 1) % Len(Rank)) + 1])]

\* Math.random() returns v/52 for a numerator v; the values considered are the
\* first NumRandom of this list
RandomList == <<0, 13, 17, 34, 26, 8, 45>>
RandomValues == {RandomList[k] : k \in 1..NumRandom}
\* the random values of the first MaxRandomSteps iterations of one shuffle;
\* every later iteration draws 51/52
RandomStreams == [1..MaxRandomSteps -> RandomValues]

\* Math.floor(Math.random() * (i + 1)) for the random value v/52
randomIndex(v, i) == (v * (i + 1)) \div 52

swap(cards, a, b) == [cards EXCEPT ![a] = cards[b], ![b] = cards[a]]

\* Deck.shuffle: for i = length-1 down to 1 swap cards[i] and cards[j];
\* after[step] is the array after step iterations, i the 0-based loop index.
\* An iteration that draws 51/52 has j = i and swaps a card with itself, so
\* the iterations after the first MaxRandomSteps leave the array as it is.
shuffle(cards, stream) ==
  LET n == Len(cards)
      free == IF MaxRandomSteps < n - 1 THEN MaxRandomSteps ELSE n - 1
      after[step \in 0..free] ==
        IF step = 0 THEN cards
        ELSE LET i == n - step
                 j == randomIndex(stream[step], i)
             IN swap(after[step - 1], i + 1, j + 1)
  IN after[free]

\* Deck.reset
reset(stream) == shuffle(initialize, stream)

\* the decks reset() can leave, one per stream of random values
Decks == {reset(stream) : stream \in RandomStreams}

\* Deck.draw pops the last card: the card (NoCard for undefined) and the
\* cards left
NoCard == [suit |-> "none", rank |-> "none"]
drawnCard(cards) == IF Len(cards) = 0 THEN NoCard ELSE cards[Len(cards)]
\* a draw that leaves the card in the deck
afterDrawKeeping(cards) == cards
afterDraw(cards) == IF Len(cards) = 0 THEN cards ELSE SubSeq(cards, 1, Len(cards) - 1)

(***************************************************************************)
(* Hand evaluator                                                          *)
(***************************************************************************)
RECURSIVE sumEleven(_)
sumEleven(hand) ==
  IF hand = <<>> THEN 0
  ELSE (IF hand[1].rank = "A" THEN 11 ELSE getValue(hand[1])) + sumEleven(Tail(hand))

RECURSIVE sumOne(_)
sumOne(hand) ==
  IF hand = <<>> THEN 0
  ELSE (IF hand[1].rank = "A" THEN 1 ELSE getValue(hand[1])) + sumOne(Tail(hand))

aceCountOf(hand) == Cardinality({k \in 1..Len(hand) : hand[k].rank = "A"})

\* a conversion of one Ace at most
downgradeOnce(total, aceCount) ==
  IF total > 21 /\ aceCount > 0 THEN total - 10 ELSE total

\* while (total > 21 && aceCount > 0) { total -= 10; aceCount-- }
RECURSIVE downgrade(_, _)
downgrade(total, aceCount) ==
  IF total > 21 /\ aceCount > 0 THEN downgrade(total - 10, aceCount - 1) ELSE total

\* an evaluation that calls every 21 a blackjack
calculateHandValueAny21(hand) ==
  [aceAsOne |-> sumOne(hand),
   aceAsEleven |-> sumEleven(hand),
   best |-> downgrade(sumEleven(hand), aceCountOf(hand)),
   isBlackjack |-> (downgrade(sumEleven(hand), aceCountOf(hand)) = 21),
   isBusted |-> (downgrade(sumEleven(hand), aceCountOf(hand)) > 21)]

calculateHandValue(hand) ==
  LET aceAsEleven == sumEleven(hand)
      total == downgrade(aceAsEleven, aceCountOf(hand))
  IN [aceAsOne |-> sumOne(hand),
      aceAsEleven |-> aceAsEleven,
      best |-> total,
      isBlackjack |-> (Len(hand) = 2 /\ total = 21),
      isBusted |-> (total > 21)]

(***************************************************************************)
(* Player                                                                  *)
(***************************************************************************)
\* the id of a player built by Game.initializePlayers: the id is passed
\* positionally to a constructor that reads options.id, which is undefined
UndefinedId == "undefined"
DealerId == "dealer"
\* no player / no id (null, or undefined where a Player is expected)
Null == "null"
\* JavaScript truthiness of an id
Truthy(id) == id \notin {Null, UndefinedId}

createDefaultStats ==
  [numberOfGamesLost |-> 0, numberOfGamesPlayed |-> 0, numberOfGamesWon |-> 0,
   numberOfTimesBlackjack |-> 0, numberOfTimesBusted |-> 0, totalWinnings |-> 0]

\* new Player(options)
Player(id, isNPC, bank) ==
  [id |-> id, isNPC |-> isNPC, hand |-> <<>>, bank |-> bank,
   stats |-> createDefaultStats, turn |-> FALSE, isFinished |-> FALSE,
   lastAction |-> "none", status |-> "ok", currentBet |-> 0, totalBet |-> 0]

\* a snapshot without the statistics, restored with the default ones
toJSONWithoutStats(p) ==
  [id |-> p.id, isNPC |-> p.isNPC, bank |-> p.bank, stats |-> createDefaultStats]
\* Player.toJSON: the snapshot {id, name, isNPC, bank, stats}
toJSON(p) == [id |-> p.id, isNPC |-> p.isNPC, bank |-> p.bank, stats |-> p.stats]
\* Player.fromJSON: new Player({id, name, isNPC, bank, stats})
fromJSON(data) == [Player(data.id, data.isNPC, data.bank) EXCEPT !.stats = data.stats]

addCard(p, card) == [p EXCEPT !.hand = Append(@, card)]
clearHand(p) == [p EXCEPT !.hand = <<>>]

\* a bet that the bank need not cover
placeBetOnCredit(p, amount) ==
  IF amount <= 0 THEN p
  ELSE [p EXCEPT !.bank = Minus(@, amount), !.currentBet = amount,
                 !.totalBet = @ + amount, !.lastAction = "bet"]

\* Player.placeBet: the player afterwards; unchanged when the bet fails
placeBetOk(p, amount) == ~(amount > p.bank \/ amount <= 0)
placeBet(p, amount) ==
  IF ~placeBetOk(p, amount) THEN p
  ELSE [p EXCEPT !.bank = Minus(@, amount), !.currentBet = amount,
                 !.totalBet = @ + amount, !.lastAction = "bet"]

\* an ante that counts as the current bet
placeAnteAsBet(p, amount) ==
  IF amount > p.bank \/ amount <= 0 THEN p
  ELSE [p EXCEPT !.bank = Minus(@, amount), !.currentBet = amount,
                 !.totalBet = @ + amount, !.lastAction = "ante"]

placeAnteOk(p, amount) == ~(amount > p.bank \/ amount <= 0)
placeAnte(p, amount) ==
  IF ~placeAnteOk(p, amount) THEN p
  ELSE [p EXCEPT !.bank = Minus(@, amount), !.totalBet = @ + amount,
                 !.lastAction = "ante"]

doubleBetOk(p) == ~(p.currentBet > p.bank)
doubleBet(p) ==
  IF ~doubleBetOk(p) THEN p
  ELSE [p EXCEPT !.bank = Minus(@, p.currentBet), !.currentBet = @ * 2,
                 !.totalBet = @ + p.currentBet, !.lastAction = "double-down"]

\* set bank(value): Math.max(0, value)
setBank(p, value) == [p EXCEPT !.bank = IF value < 0 THEN 0 ELSE value]

receiveWinnings(p, amount) ==
  [p EXCEPT !.bank = Plus(@, amount), !.stats.totalWinnings = @ + amount]

clearBets(p) == [p EXCEPT !.currentBet = 0, !.totalBet = 0]

\* the turn and isFinished setters
setTurn(p, value) ==
  [p EXCEPT !.turn = value, !.lastAction = IF value THEN "start-turn" ELSE @]
setIsFinished(p, value) ==
  [p EXCEPT !.isFinished = value, !.lastAction = IF value THEN "finish" ELSE @]

recordWin(p) ==
  [p EXCEPT !.stats.numberOfGamesWon = @ + 1, !.stats.numberOfGamesPlayed = @ + 1,
            !.status = "winner"]
recordLoss(p) ==
  [p EXCEPT !.stats.numberOfGamesLost = @ + 1, !.stats.numberOfGamesPlayed = @ + 1,
            !.status = "loser"]
\* a bust that counts as a game played
recordBustAsPlayed(p) ==
  [p EXCEPT !.stats.numberOfTimesBusted = @ + 1, !.stats.numberOfGamesPlayed = @ + 1,
            !.status = "busted", !.isFinished = TRUE]
recordBust(p) ==
  [p EXCEPT !.stats.numberOfTimesBusted = @ + 1, !.status = "busted",
            !.isFinished = TRUE]
recordBlackjack(p) ==
  [p EXCEPT !.stats.numberOfTimesBlackjack = @ + 1, !.status = "blackjack"]

(***************************************************************************)
(* Engine state record and the event channel                               *)
(*   players, order    PlayerManager.players (a Map: values, key order)    *)
(*   turnOrder, currentPlayerIndex, pmPot, ante, pmRound   PlayerManager   *)
(*   cards             Deck.cards                                          *)
(*   isGameActive, gameStatus, pot, round, winnerId, loserId BlackjackGame *)
(*   timers            pending setTimeout callbacks, per <<source, id>>    *)
(*   agentGame         NPCAgent.game is set; agentHandler: subscribed      *)
(*   currentPlayerId   BlackjackTable.currentPlayerId                      *)
(*   events            notifications emitted during the call, in order     *)
(*   ret               value returned by the call                          *)
(*   found             nextActivePlayer returned a player                  *)
(*   evalCount, gameOverCount   executions of evaluateGame and game-over   *)
(*                     notifications since the last start()                *)
(*   statsAtStart      every player's statistics when start() returned     *)
(*   bets              successful bets placed so far                       *)
(*   drawn             what the draws on the deck alone returned, in order *)
(***************************************************************************)
\* players.has(id); getPlayer(id) is s.players[id] when has(s, id), else undefined
has(s, playerId) == playerId \in DOMAIN s.players
getPlayer(s, playerId) == s.players[playerId]

\* Array.from(players.values()) as the sequence of ids in Map order
getAllPlayers(s) == s.order
getHumanPlayers(s) == LET human(id) == ~s.players[id].isNPC IN SelectSeq(s.order, human)

setPlayer(s, p) == [s EXCEPT !.players[p.id] = p]

\* F applied to the value of e: the statement `const x = e; F(x)`
Then(e, F(_)) == CHOOSE r \in {F(x) : x \in {e}} : TRUE

TimerKey(source, id) == <<source, id>>
\* setTimeout(callback): one more pending callback of that source and player
setTimeout(s, source, id) == [s EXCEPT !.timers[TimerKey(source, id)] = @ + 1]

\* an agent that ignores the turn changes
agentIgnoresTurnChange(s, p, action) == s

\* NPCAgent.handleTurnChange: schedules playTurn for an NPC whose turn starts
agentHandleTurnChange(s, p, action) ==
  IF ~s.agentHandler \/ action # "start-turn" \/ ~p.isNPC THEN s
  ELSE setTimeout(s, "agent", p.id)

\* BlackjackTable.handleTurnChange, as far as it changes currentPlayerId
tableHandleTurnChange(s, p, action) ==
  IF ~p.isNPC /\ action = "start-turn" THEN [s EXCEPT !.currentPlayerId = p.id] ELSE s

\* GameEventBus.emit: records the notification and runs the subscribers
\* synchronously (only turn-change subscribers change modelled state)
emit(s, event) ==
  Then([s EXCEPT !.events = Append(@, event)], LAMBDA s1 :
    IF event.type = "turnchange"
    THEN Then(agentHandleTurnChange(s1, s1.players[event.player], event.action),
              LAMBDA s2 : tableHandleTurnChange(s2, s2.players[event.player],
                                                event.action))
    ELSE IF event.type = "gameover"
    THEN [s1 EXCEPT !.gameOverCount = @ + 1]
    ELSE s1)

Event(type, player, action) ==
  [type |-> type, player |-> player, action |-> action, winners |-> <<>>, losers |-> <<>>]
\* GameEventBus.log
log(s, message, playerId) == emit(s, Event("activitylog", playerId, message))

(***************************************************************************)
(* PlayerManager                                                           *)
(***************************************************************************)
\* applies f to every player of ids, in order (forEach)
forEachPlayer(s, ids, f(_, _)) ==
  LET after[k \in 0..Len(ids)] ==
        IF k = 0 THEN s
        ELSE Then(after[k - 1], LAMBDA t : f(t, ids[k]))
  IN after[Len(ids)]

\* PlayerManager.addPlayer: Map.set keeps the position of an existing key
addPlayer(s, id, isNPC, bank) ==
  [s EXCEPT !.players = [k \in DOMAIN s.players \cup {id} |->
                           IF k = id THEN Player(id, isNPC, bank) ELSE s.players[k]],
            !.order = IF id \in DOMAIN s.players THEN @ ELSE Append(@, id),
            !.turnOrder = Append(@, id)]

\* the call returns value
return(s, value) == [s EXCEPT !.ret = value]

\* Array.indexOf: the 1-based position of the first x in seq, 0 when absent
indexOf(seq, x) ==
  IF \E i \in 1..Len(seq) : seq[i] = x
  THEN CHOOSE i \in 1..Len(seq) : seq[i] = x /\ \A j \in 1..(i - 1) : seq[j] # x
  ELSE 0
\* Array.splice(index, 1)
splice(seq, i) == [k \in 1..(Len(seq) - 1) |-> IF k < i THEN seq[k] ELSE seq[k + 1]]

\* PlayerManager.removePlayer
removePlayer(s, playerId) ==
  IF ~has(s, playerId) THEN return(s, FALSE)
  ELSE Then([s EXCEPT !.players = [k \in DOMAIN s.players \ {playerId} |-> s.players[k]],
                      !.order = splice(@, indexOf(@, playerId))],
            LAMBDA s1 :
              IF indexOf(s1.turnOrder, playerId) = 0 THEN return(s1, TRUE)
              ELSE Then([s1 EXCEPT !.turnOrder = splice(@, indexOf(@, playerId))],
                        LAMBDA s2 :
                          return([s2 EXCEPT !.currentPlayerIndex =
                                              IF @ >= Len(s2.turnOrder) THEN 0 ELSE @],
                                 TRUE)))

\* PlayerManager.setActivePlayers
setActivePlayers(s, playerIds) ==
  LET known(id) == has(s, id)
  IN [s EXCEPT !.turnOrder = SelectSeq(playerIds, known), !.currentPlayerIndex = 0]

\* PlayerManager.setAnte: Math.max(0, amount)
setAnte(s, amount) == [s EXCEPT !.ante = IF amount < 0 THEN 0 ELSE amount]

\* turnOrder[currentPlayerIndex], undefined when the index is out of range
\* (the 0-based currentPlayerIndex is NaN, here -1, after % 0)
currentId(s) ==
  IF s.currentPlayerIndex >= 0 /\ s.currentPlayerIndex < Len(s.turnOrder)
  THEN s.turnOrder[s.currentPlayerIndex + 1] ELSE Null

\* PlayerManager.getCurrentPlayer: the id of the player, or Null for undefined;
\* a falsy id yields undefined
getCurrentPlayer(s) ==
  Then(currentId(s), LAMBDA playerId :
    IF Truthy(playerId) /\ has(s, playerId) THEN playerId ELSE Null)

\* PlayerManager.startTurn
startTurn(s) ==
  Then(getCurrentPlayer(s), LAMBDA id :
    IF id = Null THEN s
    ELSE LET endPrevious(t, k) ==
               IF t.players[k].turn /\ k # id
               THEN [t EXCEPT !.players[k] =
                                [setTurn(@, FALSE) EXCEPT !.lastAction = "end-turn"]]
               ELSE t
         IN Then(forEachPlayer(s, getAllPlayers(s), endPrevious), LAMBDA s1 :
              log(emit([s1 EXCEPT !.players[id] =
                                    [setTurn(@, TRUE) EXCEPT !.lastAction = "start-turn"]],
                       Event("turnchange", id, "start-turn")),
                  "turn started", id)))

\* (currentPlayerIndex + 1) % turnOrder.length; NaN (-1) when the length is 0
nextIndex(s) ==
  IF Len(s.turnOrder) = 0 \/ s.currentPlayerIndex < 0 THEN -1
  ELSE (s.currentPlayerIndex + 1) % Len(s.turnOrder)

\* PlayerManager.nextActivePlayer: the state afterwards; found tells whether a
\* player was returned (then the current player)
RECURSIVE nextActiveFrom(_, _)
nextActiveFrom(s, attempts) ==
  Then([s EXCEPT !.currentPlayerIndex = nextIndex(s)], LAMBDA s1 :
    Then(getCurrentPlayer(s1), LAMBDA id :
      IF id # Null /\ ~s1.players[id].isFinished /\ s1.players[id].status = "ok"
      THEN [startTurn(s1) EXCEPT !.found = TRUE]
      ELSE IF attempts + 1 < Len(s1.turnOrder)
           THEN nextActiveFrom(s1, attempts + 1)
           ELSE [s1 EXCEPT !.found = FALSE]))

nextActivePlayer(s) == nextActiveFrom(s, 0)

\* PlayerManager.allPlayersFinished
allPlayersFinished(s) ==
  \A id \in DOMAIN s.players :
     s.players[id].isFinished \/ s.players[id].status = "busted"

\* PlayerManager.resetTurns
resetTurns(s) ==
  LET resetOne(t, k) ==
        [t EXCEPT !.players[k] =
           [setIsFinished(setTurn(@, FALSE), FALSE) EXCEPT !.status = "ok",
                                                           !.lastAction = "none"]]
  IN forEachPlayer([s EXCEPT !.currentPlayerIndex = 0], getAllPlayers(s), resetOne)

\* an ante collection that charges the dealer too
collectAntesFromAll(s) ==
  LET anteOne(t, k) ==
        IF placeAnteOk(t.players[k], t.ante)
        THEN log([t EXCEPT !.players[k] = placeAnte(@, t.ante),
                           !.pmPot = @ + t.ante], "places ante", k)
        ELSE t
  IN forEachPlayer([s EXCEPT !.pmPot = 0], getAllPlayers(s), anteOne)

\* PlayerManager.collectAntes
collectAntes(s) ==
  LET anteOne(t, k) ==
        IF (~t.players[k].isNPC \/ k # DealerId) /\ placeAnteOk(t.players[k], t.ante)
        THEN log([t EXCEPT !.players[k] = placeAnte(@, t.ante),
                           !.pmPot = @ + t.ante], "places ante", k)
        ELSE t
  IN forEachPlayer([s EXCEPT !.pmPot = 0], getAllPlayers(s), anteOne)

\* PlayerManager.placeBet
pmPlaceBet(s, playerId, amount) ==
  IF ~has(s, playerId) THEN return(s, FALSE)
  ELSE IF placeBetOk(s.players[playerId], amount)
  THEN return(log([s EXCEPT !.players[playerId] = placeBet(@, amount),
                            !.pmPot = @ + amount], "bets", playerId), TRUE)
  ELSE return(s, FALSE)

\* Math.ceil(a / b)
ceilDiv(a, b) == (a + b - 1) \div b
\* Math.floor(a / b) for a >= 0, b > 0
floorDiv(a, b) == a \div b

\* PlayerManager.awardPot
awardPot(s, winnerIds) ==
  IF Len(winnerIds) = 0 THEN s
  ELSE LET awardOne(t, id) ==
             IF has(t, id)
             THEN log([t EXCEPT !.players[id] =
                                  receiveWinnings(@, floorDiv(s.pmPot, Len(winnerIds)))],
                      "wins share", id)
             ELSE t
       IN [forEachPlayer(s, winnerIds, awardOne) EXCEPT !.pmPot = 0]

\* PlayerManager.clearBets
pmClearBets(s) ==
  LET clearOne(t, k) == [t EXCEPT !.players[k] = clearBets(@)]
  IN forEachPlayer([s EXCEPT !.pmPot = 0], getAllPlayers(s), clearOne)

\* PlayerManager.startNewRound
startNewRound(s) ==
  LET clearOne(t, k) == [t EXCEPT !.players[k] = clearHand(@)]
  IN log(forEachPlayer(pmClearBets(resetTurns([s EXCEPT !.pmRound = @ + 1])),
                       getAllPlayers(s), clearOne),
         "round started", Null)

(***************************************************************************)
(* BlackjackGame                                                           *)
(***************************************************************************)
getPlayerHandValue(s, id) == calculateHandValue(s.players[id].hand)

\* Math.floor(totalBet * 2.5)
blackjackWinnings(totalBet) == (totalBet * 5) \div 2
\* a win that only returns the wager
winWinningsStake(totalBet) == totalBet
winWinnings(totalBet) == totalBet * 2

\* the body of the settlement loop of evaluateGame for one player
evaluatePlayer(s, id) ==
  LET totalBet == s.players[id].totalBet
      lose(msg) == log([s EXCEPT !.players[id] = recordLoss(@),
                                 !.loserId = id, !.winnerId = DealerId], msg, id)
      win(winnings, msg) ==
        log([s EXCEPT !.players[id] = receiveWinnings(recordWin(@), winnings),
                      !.winnerId = id, !.loserId = DealerId], msg, id)
      settle(dealerValue, playerValue) ==
        IF playerValue.isBusted THEN lose("loses (busted)")
        ELSE IF dealerValue.isBlackjack /\ ~playerValue.isBlackjack
        THEN lose("loses to dealer's Blackjack")
        ELSE IF playerValue.isBlackjack /\ ~dealerValue.isBlackjack
        THEN win(blackjackWinnings(totalBet), "wins with Blackjack")
        ELSE IF dealerValue.isBusted THEN win(winWinnings(totalBet), "wins, dealer busted")
        ELSE IF playerValue.best > dealerValue.best
        THEN win(winWinnings(totalBet), "wins with higher hand")
        ELSE IF playerValue.best < dealerValue.best THEN lose("loses with lower hand")
        ELSE log([s EXCEPT !.players[id] = receiveWinnings(@, totalBet)], "pushes", id)
  IN Then(getPlayerHandValue(s, DealerId), LAMBDA dealerValue :
       Then(getPlayerHandValue(s, id), LAMBDA playerValue :
         settle(dealerValue, playerValue)))

\* BlackjackGame.evaluateGame
evaluateGame(s) ==
  Then([s EXCEPT !.evalCount = @ + 1], LAMBDA s0 :
    IF ~has(s0, DealerId) THEN s0
    ELSE Then(forEachPlayer(s0, getHumanPlayers(s0), evaluatePlayer), LAMBDA s1 :
           Then(emit([s1 EXCEPT !.isGameActive = FALSE, !.gameStatus = "game-over"],
                     [type |-> "gameover", player |-> Null, action |-> "none",
                      winners |-> IF Truthy(s1.winnerId) THEN <<s1.winnerId>> ELSE <<>>,
                      losers |-> IF Truthy(s1.loserId) THEN <<s1.loserId>> ELSE <<>>]),
                LAMBDA s2 : emit(s2, Event("statechange", Null, s2.gameStatus)))))

\* BlackjackGame.advanceTurn
advanceTurn(s) ==
  Then(nextActivePlayer(s), LAMBDA s1 :
    IF ~s1.found \/ allPlayersFinished(s1) THEN evaluateGame(s1)
    ELSE IF s1.players[getCurrentPlayer(s1)].isNPC
         THEN setTimeout(s1, "engine", getCurrentPlayer(s1))
         ELSE s1)

\* a guard that ignores whether a round is in progress
rejectedWhileActiveOrNot(s, playerId) ==
  ~has(s, playerId) \/ s.players[playerId].isFinished
\* the guard shared by hit, stand and doubleDown
rejected(s, playerId) ==
  ~has(s, playerId) \/ s.players[playerId].isFinished \/ ~s.isGameActive

\* a stand that finishes the participant and leaves the turn where it is
standWithoutAdvance(s, playerId) ==
  IF rejected(s, playerId) THEN return(s, FALSE)
  ELSE return(log([s EXCEPT !.players[playerId] =
                              setIsFinished([@ EXCEPT !.lastAction = "stand"], TRUE)],
                  "stands", playerId),
              TRUE)

\* BlackjackGame.stand
stand(s, playerId) ==
  IF rejected(s, playerId) THEN return(s, FALSE)
  ELSE return(advanceTurn(log([s EXCEPT !.players[playerId] =
                                          setIsFinished([@ EXCEPT !.lastAction = "stand"],
                                                        TRUE)],
                              "stands", playerId)),
              TRUE)

\* a hit that announces the card after the bust and the stand were handled
hitNotifyingLast(s, playerId) ==
  Then([s EXCEPT !.cards = afterDraw(@),
                 !.players[playerId] =
                    [addCard(@, drawnCard(s.cards)) EXCEPT !.lastAction = "hit"]],
       LAMBDA s1 :
  Then(getPlayerHandValue(s1, playerId), LAMBDA handValue :
  Then(IF handValue.isBusted
       THEN advanceTurn(log([s1 EXCEPT !.players[playerId] = recordBust(@)],
                            "busts", playerId))
       ELSE s1, LAMBDA s3 :
  Then(IF handValue.best = 21 THEN stand(s3, playerId) ELSE s3, LAMBDA s4 :
  return(emit(log(s4, "hits and draws", playerId),
              Event("playerupdate", playerId, "hand")), TRUE)))))

\* BlackjackGame.hit once the guard has passed and the deck has a card
hitWithCard(s, playerId) ==
  Then([s EXCEPT !.cards = afterDraw(@),
                 !.players[playerId] =
                    [addCard(@, drawnCard(s.cards)) EXCEPT !.lastAction = "hit"]],
       LAMBDA s1 :
  Then(getPlayerHandValue(s1, playerId), LAMBDA handValue :
  Then(emit(log(s1, "hits and draws", playerId),
            Event("playerupdate", playerId, "hand")), LAMBDA s2 :
  Then(IF handValue.isBusted
       THEN advanceTurn(log([s2 EXCEPT !.players[playerId] = recordBust(@)],
                            "busts", playerId))
       ELSE s2, LAMBDA s3 :
  return(IF handValue.best = 21 THEN stand(s3, playerId) ELSE s3, TRUE)))))

\* a hit that stands the participant when the deck gives no card
hitOrStandWhenEmpty(s, playerId) ==
  IF rejected(s, playerId) THEN return(s, FALSE)
  ELSE IF Len(s.cards) = 0 THEN return(stand(s, playerId), FALSE)
  ELSE hitWithCard(s, playerId)

\* BlackjackGame.hit
hit(s, playerId) ==
  IF rejected(s, playerId) THEN return(s, FALSE)
  ELSE IF Len(s.cards) = 0 THEN return(log(s, "Deck is empty!", Null), FALSE)
  ELSE hitWithCard(s, playerId)

\* half of the additional wager
addedToPotHalved(p) == p.currentBet \div 4
\* this.pot += player.currentBet / 2, with the bet already doubled
addedToPot(p) == p.currentBet \div 2

\* the card drawn by doubleDown, when the deck has one
doubleDownDraw(s, playerId) ==
  IF Len(s.cards) = 0 THEN s
  ELSE Then([s EXCEPT !.players[playerId] = addCard(@, drawnCard(s.cards)),
                      !.cards = afterDraw(@)], LAMBDA s1 :
         Then(log(s1, "doubles down and draws", playerId), LAMBDA s2 :
           IF getPlayerHandValue(s2, playerId).isBusted
           THEN log([s2 EXCEPT !.players[playerId] = recordBust(@)], "busts", playerId)
           ELSE s2))

\* BlackjackGame.doubleDown
doubleDown(s, playerId) ==
  IF rejected(s, playerId) THEN return(s, FALSE)
  ELSE IF Len(s.players[playerId].hand) # 2 THEN return(s, FALSE)
  ELSE IF ~doubleBetOk(s.players[playerId])
  THEN return(log(s, "cannot afford to double down", playerId), FALSE)
  ELSE Then([s EXCEPT !.players[playerId] = doubleBet(@)], LAMBDA s1 :
       Then([s1 EXCEPT !.pot = @ + addedToPot(s1.players[playerId])], LAMBDA s2 :
       Then(doubleDownDraw(s2, playerId), LAMBDA s3 :
       return(advanceTurn([s3 EXCEPT !.players[playerId] = setIsFinished(@, TRUE)]),
              TRUE))))

\* BlackjackGame.dealInitialCards
dealInitialCards(s) ==
  LET dealOne(t, k) ==
        IF Len(t.cards) = 0 THEN t
        ELSE [t EXCEPT !.players[k] = addCard(@, drawnCard(t.cards)),
                       !.cards = afterDraw(@)]
      checkBlackjack(t, k) ==
        IF getPlayerHandValue(t, k).isBlackjack
        THEN log([t EXCEPT !.players[k] = recordBlackjack(@)], "has Blackjack!", k)
        ELSE t
      dealRound(t) == forEachPlayer(t, getAllPlayers(s), dealOne)
  IN emit(forEachPlayer(dealRound(dealRound(s)), getAllPlayers(s), checkBlackjack),
          Event("deckupdate", Null, "draw"))

\* BlackjackGame.start, deck.reset() leaving the cards shuffled
start(s, shuffled) ==
  Then(collectAntes(startNewRound(
         [s EXCEPT !.round = @ + 1, !.winnerId = Null, !.loserId = Null,
                   !.pot = 0, !.cards = shuffled,
                   !.evalCount = 0, !.gameOverCount = 0])), LAMBDA s1 :
    startTurn(log(emit(dealInitialCards([s1 EXCEPT !.pot = s1.pmPot,
                                                   !.isGameActive = TRUE,
                                                   !.gameStatus = "in-progress"]),
                       Event("statechange", Null, "in-progress")),
                  "Round started", Null)))

\* Game.endGame
endGame(s) == [s EXCEPT !.isGameActive = FALSE]

\* BlackjackGame.playNPCTurn
playNPCTurn(s, id) ==
  IF getPlayerHandValue(s, id).best <= 16 THEN hit(s, id) ELSE stand(s, id)

\* BlackjackGame.playTurn, the callback of the timer set by advanceTurn
playTurn(s, id) == IF s.players[id].isNPC THEN playNPCTurn(s, id) ELSE s

(***************************************************************************)
(* NPCAgent                                                                *)
(***************************************************************************)
\* Soft17DealerStrategy.decide
Soft17DealerStrategy(handValue) ==
  IF handValue.best = 17 /\ handValue.aceAsOne # handValue.aceAsEleven THEN "hit"
  ELSE IF handValue.best <= 16 THEN "hit"
  ELSE "stand"

\* a strategy that still draws on 17
drawOnSeventeen(handValue) == IF handValue.best <= 17 THEN "hit" ELSE "stand"

\* BasicDealerStrategy.decide
BasicDealerStrategy(handValue) == IF handValue.best <= 16 THEN "hit" ELSE "stand"

\* a callback that plays whether or not the agent still has a game
agentPlayTurnAnyway(s, id) ==
  IF s.players[id].isFinished THEN s
  ELSE Then(getPlayerHandValue(s, id), LAMBDA handValue :
         IF handValue.isBusted \/ handValue.isBlackjack THEN stand(s, id)
         ELSE IF BasicDealerStrategy(handValue) = "hit" THEN hit(s, id)
         ELSE stand(s, id))

\* NPCAgent.playTurn, the callback of the timers set by handleTurnChange and
\* by playTurn itself
agentPlayTurn(s, id) ==
  IF ~s.agentGame \/ s.players[id].isFinished THEN s
  ELSE Then(getPlayerHandValue(s, id), LAMBDA handValue :
         IF handValue.isBusted \/ handValue.isBlackjack THEN stand(s, id)
         ELSE IF BasicDealerStrategy(handValue) = "hit"
         THEN Then(hit(s, id), LAMBDA s1 :
                Then(getPlayerHandValue(s1, id), LAMBDA newHandValue :
                  IF ~s1.players[id].isFinished /\ ~newHandValue.isBusted
                     /\ newHandValue.best < 21
                  THEN setTimeout(s1, "agent", id) ELSE s1))
         ELSE stand(s, id))

\* NPCAgent.detach: unsubscribes the turn handler and forgets the game
detach(s) == [s EXCEPT !.agentHandler = FALSE, !.agentGame = FALSE]

(***************************************************************************)
(* BlackjackTable                                                          *)
(***************************************************************************)
\* bettingPanel.onBet
onBet(s, amount) ==
  IF Truthy(s.currentPlayerId) /\ has(s, s.currentPlayerId)
  THEN [s EXCEPT !.players[s.currentPlayerId] = placeBet(@, amount)]
  ELSE s

(***************************************************************************)
(* State                                                                   *)
(***************************************************************************)
VARIABLES players, order, turnOrder, currentPlayerIndex, pmPot, ante, pmRound,
          cards, isGameActive, gameStatus, pot, round, winnerId, loserId,
          timers, agentGame, agentHandler, currentPlayerId,
          evalCount, gameOverCount, statsAtStart, bets, drawn

\* the state of the program proper
engine == <<players, order, turnOrder, currentPlayerIndex, pmPot, ante, pmRound,
            cards, isGameActive, gameStatus, pot, round, winnerId, loserId,
            timers, agentGame, agentHandler, currentPlayerId>>
vars == <<engine, evalCount, gameOverCount, statsAtStart, bets, drawn>>

\* ids handed out by BlackjackGame.addPlayer (`player-${Date.now()}`)
AddedHuman == "player-1"
AddedNPC == "player-2"
Ids == {UndefinedId, DealerId, AddedHuman, AddedNPC}
TimerSources == {"engine", "agent"}

\* the engine state record of the current state
Cur ==
  [players |-> players, order |-> order, turnOrder |-> turnOrder,
   currentPlayerIndex |-> currentPlayerIndex, pmPot |-> pmPot, ante |-> ante,
   pmRound |-> pmRound, cards |-> cards, isGameActive |-> isGameActive,
   gameStatus |-> gameStatus, pot |-> pot, round |-> round,
   winnerId |-> winnerId, loserId |-> loserId, timers |-> timers,
   agentGame |-> agentGame, agentHandler |-> agentHandler,
   currentPlayerId |-> currentPlayerId, events |-> <<>>, ret |-> FALSE,
   evalCount |-> evalCount, gameOverCount |-> gameOverCount, found |-> FALSE]

\* the next state is the engine state record s
Becomes(s) ==
  /\ players' = s.players /\ order' = s.order /\ turnOrder' = s.turnOrder
  /\ currentPlayerIndex' = s.currentPlayerIndex /\ pmPot' = s.pmPot
  /\ ante' = s.ante /\ pmRound' = s.pmRound /\ cards' = s.cards
  /\ isGameActive' = s.isGameActive /\ gameStatus' = s.gameStatus
  /\ pot' = s.pot /\ round' = s.round /\ winnerId' = s.winnerId
  /\ loserId' = s.loserId /\ timers' = s.timers /\ agentGame' = s.agentGame
  /\ agentHandler' = s.agentHandler /\ currentPlayerId' = s.currentPlayerId
  /\ evalCount' = s.evalCount /\ gameOverCount' = s.gameOverCount

\* no more than MaxTimers callbacks of one kind are pending
TimersBounded(s) == \A k \in DOMAIN s.timers : s.timers[k] <= MaxTimers

(***************************************************************************)
(* Construction                                                            *)
(***************************************************************************)
\* new PlayerManager({defaultPlayerCount: 0, includeDealer: false, defaultAnte})
\* inside new BlackjackGame(config), with an unshuffled new Deck()
Empty ==
  [players |-> <<>>, order |-> <<>>, turnOrder |-> <<>>, currentPlayerIndex |-> 0,
   pmPot |-> 0, ante |-> DEFAULT_ANTE, pmRound |-> 0, cards |-> initialize,
   isGameActive |-> FALSE, gameStatus |-> "init", pot |-> 0, round |-> 0,
   winnerId |-> Null, loserId |-> Null,
   timers |-> [k \in TimerSources \X Ids |-> 0],
   agentGame |-> TRUE, agentHandler |-> TRUE, currentPlayerId |-> Null,
   events |-> <<>>, ret |-> FALSE, evalCount |-> 0, gameOverCount |-> 0,
   found |-> FALSE]

\* new BlackjackGame({playerNames}): one player per name, all with the id
\* undefined, then the dealer
RECURSIVE addNamed(_, _)
addNamed(s, names) ==
  IF names = 0 THEN s ELSE addNamed(addPlayer(s, UndefinedId, FALSE, DEFAULT_BANK), names - 1)

BlackjackGame(names) == addPlayer(addNamed(Empty, names), DealerId, TRUE, Infinity)

\* BlackjackGame.addPlayer(name, isNPC)
gameAddPlayer(s, id, isNPC) == addPlayer(s, id, isNPC, DEFAULT_BANK)

\* the tables a client can set up before the first round
\*   the table of BlackjackTable: one named player and the dealer;
\*   no named player, one added human, seated before the dealer;
\*   no named player, one added NPC, seated before the dealer
Rosters ==
  { BlackjackGame(1),
    setActivePlayers(gameAddPlayer(BlackjackGame(0), AddedHuman, FALSE),
                     <<AddedHuman, DealerId>>),
    setActivePlayers(gameAddPlayer(BlackjackGame(0), AddedNPC, TRUE),
                     <<AddedNPC, DealerId>>) }

\* the state is the engine state record s
Is(s) ==
  /\ players = s.players /\ order = s.order /\ turnOrder = s.turnOrder
  /\ currentPlayerIndex = s.currentPlayerIndex /\ pmPot = s.pmPot
  /\ ante = s.ante /\ pmRound = s.pmRound /\ cards = s.cards
  /\ isGameActive = s.isGameActive /\ gameStatus = s.gameStatus
  /\ pot = s.pot /\ round = s.round /\ winnerId = s.winnerId
  /\ loserId = s.loserId /\ timers = s.timers /\ agentGame = s.agentGame
  /\ agentHandler = s.agentHandler /\ currentPlayerId = s.currentPlayerId
  /\ evalCount = s.evalCount /\ gameOverCount = s.gameOverCount

Init ==
  /\ \E s \in Rosters : Is(s)
  /\ statsAtStart = <<>>
  /\ bets = 0
  /\ drawn = <<>>

(***************************************************************************)
(* Actions                                                                 *)
(***************************************************************************)
\* the ids a client may pass: every known id and one unknown id
UnknownId == "nobody"
CallIds == Ids \cup {UnknownId}

\* BlackjackGame.start() with any of the decks
StartRound ==
  \E shuffled \in Decks :
     \E s \in {start(Cur, shuffled)} :
        /\ TimersBounded(s)
        /\ Becomes(s)
        /\ statsAtStart' = [id \in DOMAIN s.players |-> s.players[id].stats]
        /\ UNCHANGED <<bets, drawn>>

Start == round < MaxRounds /\ StartRound

Hit(id) ==
  \E s \in {hit(Cur, id)} :
     /\ TimersBounded(s)
     /\ Becomes(s)
     /\ UNCHANGED <<statsAtStart, bets, drawn>>

Stand(id) ==
  \E s \in {stand(Cur, id)} :
     /\ TimersBounded(s)
     /\ Becomes(s)
     /\ UNCHANGED <<statsAtStart, bets, drawn>>

DoubleDown(id) ==
  \E s \in {doubleDown(Cur, id)} :
     /\ TimersBounded(s)
     /\ Becomes(s)
     /\ UNCHANGED <<statsAtStart, bets, drawn>>

\* the timer set by advanceTurn fires
EngineTimer(id) ==
  /\ timers[TimerKey("engine", id)] > 0
  /\ \E s \in {playTurn([Cur EXCEPT !.timers[TimerKey("engine", id)] = @ - 1], id)} :
        /\ TimersBounded(s)
        /\ Becomes(s)
  /\ UNCHANGED <<statsAtStart, bets, drawn>>

\* a timer set by the agent fires
AgentTimer(id) ==
  /\ timers[TimerKey("agent", id)] > 0
  /\ \E s \in {agentPlayTurn([Cur EXCEPT !.timers[TimerKey("agent", id)] = @ - 1], id)} :
        /\ TimersBounded(s)
        /\ Becomes(s)
  /\ UNCHANGED <<statsAtStart, bets, drawn>>

Play ==
  \/ \E id \in CallIds : Hit(id)
  \/ \E id \in CallIds : Stand(id)
  \/ \E id \in CallIds : DoubleDown(id)
  \/ \E id \in Ids : EngineTimer(id)
  \/ \E id \in Ids : AgentTimer(id)

Next == Start \/ Play

\* the round engine: rounds, player actions and deferred callbacks
Spec == Init /\ [][Next]_vars

(***************************************************************************)
(* The round engine with endGame                                           *)
(***************************************************************************)
\* game.endGame()
EndGame ==
  /\ Becomes(endGame(Cur))
  /\ UNCHANGED <<statsAtStart, bets, drawn>>

StatusNext == Next \/ EndGame

StatusSpec == Init /\ [][StatusNext]_vars

(***************************************************************************)
(* Ledger actions                                                          *)
(***************************************************************************)
\* amounts a client may bet: rejected (zero), affordable, above every bank
BetAmounts == {0, 15, 2000}
\* the ids a client may pass to the ledger: the players and one unknown id
LedgerIds == DOMAIN players \cup {UnknownId}
\* the winner lists a client may pass to awardPot
WinnerLists == UNION {[1..n -> LedgerIds] : n \in 0..MaxWinners}

\* game.getPlayerManager().placeBet(id, amount)
PlaceBet(id, amount) ==
  /\ bets < MaxBets
  /\ \E s \in {pmPlaceBet(Cur, id, amount)} :
        /\ Becomes(s)
        /\ bets' = IF s.ret THEN bets + 1 ELSE bets
  /\ UNCHANGED <<statsAtStart, drawn>>

\* the bet handler of the table
OnBet(amount) ==
  /\ bets < MaxBets
  /\ \E s \in {onBet(Cur, amount)} :
        /\ Becomes(s)
        /\ bets' = IF s.players # players THEN bets + 1 ELSE bets
  /\ UNCHANGED <<statsAtStart, drawn>>

\* game.getPlayerManager().awardPot(winnerIds)
AwardPot(winnerIds) ==
  \E s \in {awardPot(Cur, winnerIds)} :
     /\ Becomes(s)
     /\ UNCHANGED <<statsAtStart, bets, drawn>>

LedgerStart == round < MaxLedgerRounds /\ StartRound

Bet ==
  \/ \E id \in LedgerIds, amount \in BetAmounts : PlaceBet(id, amount)
  \/ \E amount \in BetAmounts : OnBet(amount)

LedgerNext == LedgerStart \/ Play \/ Bet

\* one round of the engine together with the bets a client can place
LedgerSpec == Init /\ [][LedgerNext]_vars

PotNext ==
  \/ LedgerStart
  \/ Bet
  \/ \E winnerIds \in WinnerLists : AwardPot(winnerIds)

\* the pot of the ledger: antes, bets and awardPot
PotSpec == Init /\ [][PotNext]_vars

(***************************************************************************)
(* The deck alone                                                          *)
(***************************************************************************)
\* deck.reset() with any of the random streams
DeckReset ==
  /\ \E stream \in RandomStreams : cards' = reset(stream)
  /\ drawn' = <<>>

\* deck.draw(), up to two draws after the deck is exhausted
DeckDraw ==
  /\ Len(drawn) < Len(initialize) + 2
  /\ drawn' = Append(drawn, drawnCard(cards))
  /\ cards' = afterDraw(cards)

DeckNext ==
  /\ DeckReset \/ DeckDraw
  /\ UNCHANGED <<players, order, turnOrder, currentPlayerIndex, pmPot, ante, pmRound,
                 isGameActive, gameStatus, pot, round, winnerId, loserId, timers,
                 agentGame, agentHandler, currentPlayerId, evalCount, gameOverCount,
                 statsAtStart, bets>>

\* a new Deck() that is reset and drawn from
DeckSpec == Init /\ [][DeckNext]_vars

(***************************************************************************)
(* Hands                                                                   *)
(***************************************************************************)
\* the cards put in a hand: one of every rank (the evaluation of a hand
\* reads the ranks only)
HandCards == {Card(Suit[1], Rank[j]) : j \in 1..Len(Rank)}
\* the participant whose hand is built
HandOwner == DealerId

\* player.addCard(card) for any card
AddCard(card) ==
  /\ Len(players[HandOwner].hand) < MaxHandLen
  /\ players' = [players EXCEPT ![HandOwner] = addCard(@, card)]
  /\ UNCHANGED <<order, turnOrder, currentPlayerIndex, pmPot, ante, pmRound, cards,
                 isGameActive, gameStatus, pot, round, winnerId, loserId, timers,
                 agentGame, agentHandler, currentPlayerId, evalCount, gameOverCount,
                 statsAtStart, bets, drawn>>

HandNext == \E card \in HandCards : AddCard(card)

\* the table of BlackjackTable before its first round
HandInit ==
  /\ Is(BlackjackGame(1))
  /\ statsAtStart = <<>>
  /\ bets = 0
  /\ drawn = <<>>

\* every hand of up to MaxHandLen cards, built card by card
HandSpec == HandInit /\ [][HandNext]_vars

(***************************************************************************)
(* A table with a stake of 100 and stacked decks                           *)
(***************************************************************************)
\* one added human whose bank is set to 100, seated before the dealer
ScenarioRoster ==
  Then(setActivePlayers(gameAddPlayer(BlackjackGame(0), AddedHuman, FALSE),
                        <<AddedHuman, DealerId>>), LAMBDA s :
    setPlayer(s, setBank(s.players[AddedHuman], 100)))

\* the two cards dealt to the participant and to the dealer
ParticipantHands ==
  { <<Card("spades", "A"), Card("spades", "9")>>,
    <<Card("spades", "A"), Card("spades", "K")>>,
    <<Card("spades", "9"), Card("clubs", "9")>> }
DealerHands ==
  { <<Card("hearts", "9"), Card("diamonds", "9")>>,
    <<Card("hearts", "A"), Card("hearts", "K")>> }

\* the order in which dealInitialCards draws for a table s: one card for
\* every player in Map order, twice
dealOrder(s, hands) ==
  [k \in 1..(2 * Len(s.order)) |->
     hands[s.order[((k - 1) % Len(s.order)) + 1]][((k - 1) \div Len(s.order)) + 1]]

reverse(seq) == [k \in 1..Len(seq) |-> seq[Len(seq) + 1 - k]]

\* a shuffled deck from which dealInitialCards deals the given hands: draw()
\* pops the last card
stacked(s, hands) ==
  LET top == dealOrder(s, hands)
      isBelow(card) == \A k \in 1..Len(top) : top[k] # card
  IN SelectSeq(initialize, isBelow) \o reverse(top)

ScenarioInit ==
  /\ Is(ScenarioRoster)
  /\ statsAtStart = <<>>
  /\ bets = 0
  /\ drawn = <<>>

\* BlackjackGame.start() when the shuffle leaves one of the stacked decks; a
\* participant who joined the table is dealt the 10 and 7 of clubs
ScenarioStart ==
  /\ round = 0
  /\ \E hand \in ParticipantHands, dealerHand \in DealerHands :
        \E s \in {start(Cur, stacked(Cur,
                     [id \in DOMAIN players |->
                        IF id = DealerId THEN dealerHand
                        ELSE IF id = AddedHuman THEN hand
                        ELSE <<Card("clubs", "10"), Card("clubs", "7")>>]))} :
           /\ TimersBounded(s)
           /\ Becomes(s)
           /\ statsAtStart' = [id \in DOMAIN s.players |-> s.players[id].stats]
           /\ UNCHANGED <<bets, drawn>>

ScenarioNext == ScenarioStart \/ Play

\* one round at the table with a stake of 100
ScenarioSpec == ScenarioInit /\ [][ScenarioNext]_vars

(***************************************************************************)
(* Rounds in which only the deferred callbacks play the NPCs               *)
(***************************************************************************)
\* the calls of the clients, made for the participants that are not NPCs
HumanPlay ==
  \E id \in {k \in DOMAIN players : ~players[k].isNPC} :
     Hit(id) \/ Stand(id) \/ DoubleDown(id)

\* a pending deferred callback fires
TimerFires == \E id \in Ids : EngineTimer(id) \/ AgentTimer(id)

\* the two cards the shuffle leaves for the dealer: 16, hard 17, soft 17,
\* 5, 7 and a blackjack
DealerTurnHands ==
  { <<Card("hearts", "10"), Card("hearts", "6")>>,
    <<Card("hearts", "10"), Card("hearts", "7")>>,
    <<Card("hearts", "A"), Card("hearts", "6")>>,
    <<Card("hearts", "2"), Card("hearts", "3")>>,
    <<Card("hearts", "5"), Card("hearts", "2")>>,
    <<Card("hearts", "A"), Card("hearts", "K")>> }

\* BlackjackGame.start() when the shuffle leaves one of these hands for the
\* dealer and the 10 and 7 of clubs for the other participant
DealerStart ==
  /\ round < MaxRounds
  /\ \E dealerHand \in DealerTurnHands :
        \E s \in {start(Cur, stacked(Cur,
                     [id \in DOMAIN players |->
                        IF id = DealerId THEN dealerHand
                        ELSE <<Card("clubs", "10"), Card("clubs", "7")>>]))} :
           /\ TimersBounded(s)
           /\ Becomes(s)
           /\ statsAtStart' = [id \in DOMAIN s.players |-> s.players[id].stats]
           /\ UNCHANGED <<bets, drawn>>

DealerNext == DealerStart \/ HumanPlay \/ TimerFires

DealerSpec == Init /\ [][DealerNext]_vars

\* a round is started once the previous one is over and its callbacks ran
LiveStart ==
  /\ ~isGameActive
  /\ \A k \in DOMAIN timers : timers[k] = 0
  /\ DealerStart

LiveNext == LiveStart \/ HumanPlay \/ TimerFires

\* every scheduled callback fires (the event loop runs every timer), and a
\* human who can stand eventually does
LiveFairness ==
  /\ \A id \in Ids : WF_vars(EngineTimer(id)) /\ WF_vars(AgentTimer(id))
  /\ \A id \in Ids : SF_vars(id \in DOMAIN players /\ ~players[id].isNPC /\ Stand(id))

LiveSpec == Init /\ [][LiveNext]_vars /\ LiveFairness

(***************************************************************************)
(* Turn rotation: a PlayerManager with three seats                         *)
(***************************************************************************)
\* two added participants seated before the dealer, no agent attached
TurnRoster ==
  detach(setActivePlayers(
           gameAddPlayer(gameAddPlayer(BlackjackGame(0), AddedHuman, FALSE),
                         AddedNPC, TRUE),
           <<AddedHuman, AddedNPC, DealerId>>))

TurnInit ==
  /\ Is(TurnRoster)
  /\ statsAtStart = <<>>
  /\ bets = 0
  /\ drawn = <<>>

\* player.isFinished = true
Finish(id) ==
  /\ Becomes(setPlayer(Cur, setIsFinished(players[id], TRUE)))
  /\ UNCHANGED <<statsAtStart, bets, drawn>>

\* player.recordBust()
RecordBust(id) ==
  /\ Becomes(setPlayer(Cur, recordBust(players[id])))
  /\ UNCHANGED <<statsAtStart, bets, drawn>>

\* player.recordBlackjack()
RecordBlackjack(id) ==
  /\ Becomes(setPlayer(Cur, recordBlackjack(players[id])))
  /\ UNCHANGED <<statsAtStart, bets, drawn>>

\* playerManager.nextActivePlayer()
NextActivePlayer ==
  /\ Becomes(nextActivePlayer(Cur))
  /\ UNCHANGED <<statsAtStart, bets, drawn>>

\* playerManager.resetTurns()
ResetTurns ==
  /\ Becomes(resetTurns(Cur))
  /\ UNCHANGED <<statsAtStart, bets, drawn>>

\* statistics are capped so that the rotation states stay finite
TurnNext ==
  \/ \E id \in DOMAIN players : Finish(id)
  \/ \E id \in DOMAIN players :
        players[id].stats.numberOfTimesBusted < MaxMarks /\ RecordBust(id)
  \/ \E id \in DOMAIN players :
        players[id].stats.numberOfTimesBlackjack < MaxMarks /\ RecordBlackjack(id)
  \/ NextActivePlayer
  \/ ResetTurns

TurnSpec == TurnInit /\ [][TurnNext]_vars

(***************************************************************************)
(* Wagers: the betting operations of one Player                            *)
(***************************************************************************)
\* amounts a client may wager: negative, zero, affordable, above the bank
WagerAmounts == {-5, 0, 15, 40, 2000}
WagerOwner == AddedHuman

\* player.placeBet(amount)
PlayerPlaceBet(amount) ==
  /\ Becomes(setPlayer(Cur, placeBet(players[WagerOwner], amount)))
  /\ UNCHANGED <<statsAtStart, bets, drawn>>

\* player.placeAnte(amount)
PlayerPlaceAnte(amount) ==
  /\ Becomes(setPlayer(Cur, placeAnte(players[WagerOwner], amount)))
  /\ UNCHANGED <<statsAtStart, bets, drawn>>

\* player.doubleBet()
PlayerDoubleBet ==
  /\ Becomes(setPlayer(Cur, doubleBet(players[WagerOwner])))
  /\ UNCHANGED <<statsAtStart, bets, drawn>>

\* player.clearBets()
PlayerClearBets ==
  /\ Becomes(setPlayer(Cur, clearBets(players[WagerOwner])))
  /\ UNCHANGED <<statsAtStart, bets, drawn>>

WagerNext ==
  \/ \E amount \in WagerAmounts : PlayerPlaceBet(amount)
  \/ \E amount \in WagerAmounts : PlayerPlaceAnte(amount)
  \/ PlayerDoubleBet
  \/ PlayerClearBets

\* a participant with a bank of 100 and the wagers a client can make
WagerSpec == ScenarioInit /\ [][WagerNext]_vars

(***************************************************************************)
(* Rounds and bets of a participant who can afford one ante and one bet    *)
(***************************************************************************)
ShortStackRoster ==
  Then(setActivePlayers(gameAddPlayer(BlackjackGame(0), AddedHuman, FALSE),
                        <<AddedHuman, DealerId>>),
       LAMBDA s : setPlayer(s, setBank(s.players[AddedHuman], 25)))

ShortStackInit ==
  /\ Is(ShortStackRoster)
  /\ statsAtStart = <<>>
  /\ bets = 0
  /\ drawn = <<>>

ShortStackNext == Start \/ Play \/ Bet

ShortStackSpec == ShortStackInit /\ [][ShortStackNext]_vars

(***************************************************************************)
(* A round during which participants join and leave                        *)
(***************************************************************************)
\* game.addPlayer(name, isNPC) with a fresh id
GameAddPlayer(id, isNPC) ==
  /\ id \notin DOMAIN players
  /\ Becomes(gameAddPlayer(Cur, id, isNPC))
  /\ UNCHANGED <<statsAtStart, bets, drawn>>

\* game.removePlayer(id); a participant for whom a deferred callback is
\* pending stays
GameRemovePlayer(id) ==
  /\ \A source \in TimerSources : id \in Ids => timers[TimerKey(source, id)] = 0
  /\ Becomes(removePlayer(Cur, id))
  /\ UNCHANGED <<statsAtStart, bets, drawn>>

\* the ids a client passes to removePlayer: the participants seated at
\* construction and one unknown id
LeaverIds == {AddedHuman, DealerId, UnknownId}

JoinLeave ==
  \/ \E isNPC \in BOOLEAN : GameAddPlayer(AddedNPC, isNPC)
  \/ \E id \in LeaverIds : GameRemovePlayer(id)

JoinLeaveNext == ScenarioStart \/ Play \/ JoinLeave

JoinLeaveSpec == ScenarioInit /\ [][JoinLeaveNext]_vars

(***************************************************************************)
(* Editing the roster between rounds                                       *)
(***************************************************************************)
\* game.addPlayer(name, isNPC): the id is player-<Date.now()>, which repeats
\* when two participants are added within the same millisecond
AddPlayerAnyId(id) ==
  /\ Len(turnOrder) < MaxSeats
  /\ Becomes(gameAddPlayer(Cur, id, FALSE))
  /\ UNCHANGED <<statsAtStart, bets, drawn>>

\* the lists a client may pass to setActivePlayers
ActiveLists ==
  UNION {[1..n -> {DealerId, AddedHuman, UnknownId}] : n \in 0..2}

\* game.getPlayerManager().setActivePlayers(playerIds)
SetActivePlayers(playerIds) ==
  /\ Becomes(setActivePlayers(Cur, playerIds))
  /\ UNCHANGED <<statsAtStart, bets, drawn>>

RosterNext ==
  \/ \E id \in {AddedHuman, AddedNPC} : AddPlayerAnyId(id)
  \/ \E id \in Ids \cup {UnknownId} : GameRemovePlayer(id)
  \/ \E playerIds \in ActiveLists : SetActivePlayers(playerIds)

RosterSpec == Init /\ [][RosterNext]_vars

(***************************************************************************)
(* A round during which the agent is detached                              *)
(***************************************************************************)
\* npcAgent.detach()
Detach ==
  /\ agentGame
  /\ Becomes(detach(Cur))
  /\ UNCHANGED <<statsAtStart, bets, drawn>>

DetachNext == LedgerStart \/ Play \/ Detach

DetachSpec == Init /\ [][DetachNext]_vars

(***************************************************************************)
(* A round during which a client empties the deck of the game              *)
(***************************************************************************)
\* while (game.getDeck().draw()) {}
RECURSIVE drawAll(_)
drawAll(deck) == IF Len(deck) = 0 THEN deck ELSE drawAll(afterDraw(deck))

DrainShoe ==
  /\ Len(cards) > 0
  /\ Becomes([Cur EXCEPT !.cards = drawAll(@)])
  /\ UNCHANGED <<statsAtStart, bets, drawn>>

ShoeNext == ScenarioStart \/ Play \/ DrainShoe

ShoeSpec == ScenarioInit /\ [][ShoeNext]_vars

(***************************************************************************)
(* Settlement as the specification states it                               *)
(***************************************************************************)
\* the participants other than the dealer
NonDealers == DOMAIN players \ {DealerId}
\* the participants settlement iterates over
Humans == {id \in NonDealers : ~players[id].isNPC}

RECURSIVE SetSum(_, _)
\* the sum of f[x] over the x of S
SetSum(f, S) ==
  IF S = {} THEN 0
  ELSE LET x == CHOOSE y \in S : TRUE IN f[x] + SetSum(f, S \ {x})

\* the seven rules, in order, for a participant's value p and the dealer's d
SettlementRules(p, d) ==
  << <<p.isBusted, "loss">>,
     <<d.isBlackjack /\ ~p.isBlackjack, "loss">>,
     <<p.isBlackjack /\ ~d.isBlackjack, "blackjack">>,
     <<d.isBusted, "win">>,
     <<p.best > d.best, "win">>,
     <<p.best < d.best, "loss">>,
     <<p.best = d.best, "push">> >>

FirstMatch(rules) ==
  rules[CHOOSE k \in 1..Len(rules) : rules[k][1] /\ \A j \in 1..(k - 1) : ~rules[j][1]][2]

\* the outcome the rules give the participant id with the hands of ps
Outcome(ps, id) ==
  FirstMatch(SettlementRules(calculateHandValue(ps[id].hand),
                             calculateHandValue(ps[DealerId].hand)))

\* what an outcome pays on a wager
Payout(outcome, wager) ==
  CASE outcome = "loss" -> 0
    [] outcome = "blackjack" -> (5 * wager) \div 2
    [] outcome = "win" -> 2 * wager
    [] outcome = "push" -> wager

\* this step runs settlement
Settles == evalCount' = evalCount + 1
\* what this step wagers for id, and what it credits to the bank of id
Wagered(id) == players'[id].totalBet - players[id].totalBet
Credited(id) == players'[id].bank - players[id].bank + Wagered(id)

\* this step settles the participant id by the first matching rule
SettledByRules(id) ==
  LET outcome == Outcome(players', id)
      before == players[id].stats
      after == players'[id].stats
  IN /\ Credited(id) = Payout(outcome, players'[id].totalBet)
     /\ after.totalWinnings - before.totalWinnings = Credited(id)
     /\ outcome \in {"win", "blackjack"} =>
          players'[id].status = "winner" /\ after.numberOfGamesWon = before.numberOfGamesWon + 1
     /\ outcome = "loss" =>
          players'[id].status = "loser" /\ after.numberOfGamesLost = before.numberOfGamesLost + 1
     /\ outcome = "push" =>
          /\ players'[id].status \notin {"winner", "loser"}
          /\ after.numberOfGamesWon = before.numberOfGamesWon
          /\ after.numberOfGamesLost = before.numberOfGamesLost

(***************************************************************************)
(* C1  Settlement classifies every non-dealer participant by the first     *)
(* matching rule of the list: busted -> loss; dealer blackjack alone ->    *)
(* loss; participant blackjack alone -> win paying floor(totalBet * 2.5);  *)
(* dealer busted -> win paying totalBet * 2; higher -> win paying          *)
(* totalBet * 2; lower -> loss; equal -> push refunding totalBet.          *)
(***************************************************************************)
C1_SettlementPrecedence ==
  [][Settles => \A id \in NonDealers : SettledByRules(id)]_vars

\* C1 for the participants that are not automated: settlement classifies
\* each of them by the first matching rule
C1_HumansSettledByPrecedence ==
  [][Settles => \A id \in Humans : SettledByRules(id)]_vars

\* a round that settled with an automated participant other than the dealer
C1_AutomatedParticipantSettled ==
  evalCount = 1 /\ \E id \in NonDealers : players[id].isNPC /\ players[id].totalBet > 0

(***************************************************************************)
(* C2  Between one start() and the next, whatever hit, stand, doubleDown   *)
(* calls and deferred callbacks happen, evaluateGame executes at most once *)
(* and at most one game-over notification is emitted.                      *)
(***************************************************************************)
C2_SettlementAtMostOnce == evalCount <= 1 /\ gameOverCount <= 1

\* the second round has settled and a participant is still unfinished
C2_SettledSecondRound ==
  /\ round = 2 /\ evalCount = 1 /\ gameOverCount = 1
  /\ \E id \in DOMAIN players : ~players[id].isFinished

(***************************************************************************)
(* C3  After a round settles, each non-dealer participant's games-played   *)
(* counter has grown by exactly 1 if the outcome was a win or a loss, with *)
(* exactly one of games-won and games-lost incremented, and by 0 on a      *)
(* push.                                                                   *)
(***************************************************************************)
\* the statistics of id grew since start() as the outcome of id requires
StatsGrewOnce(id) ==
  LET outcome == Outcome(players, id)
      before == statsAtStart[id]
      after == players[id].stats
  IN /\ after.numberOfGamesPlayed - before.numberOfGamesPlayed =
          IF outcome = "push" THEN 0 ELSE 1
     /\ after.numberOfGamesWon - before.numberOfGamesWon =
          IF outcome \in {"win", "blackjack"} THEN 1 ELSE 0
     /\ after.numberOfGamesLost - before.numberOfGamesLost =
          IF outcome = "loss" THEN 1 ELSE 0

C3_StatisticsOncePerRound ==
  evalCount = 1 => \A id \in NonDealers : StatsGrewOnce(id)

\* C3 for the participants that are not automated
C3_HumanStatisticsOncePerRound ==
  evalCount = 1 => \A id \in Humans : StatsGrewOnce(id)

\* a participant busted and the second round settled: the bust and the
\* settlement both recorded statistics
C3_BustedThenSettled ==
  /\ round = 2 /\ evalCount = 1
  /\ \E id \in Humans :
        players[id].stats.numberOfTimesBusted > statsAtStart[id].numberOfTimesBusted

(***************************************************************************)
(* C4  hit(id), stand(id) and doubleDown(id) return false and leave all    *)
(* engine state unchanged when the participant id is unknown, the          *)
(* participant is already finished, or the engine is not in progress.      *)
(***************************************************************************)
\* the call leaves the engine as it is, emits nothing and returns false
Refused(afterCall) == afterCall = Cur

C4_RejectedCallsChangeNothing ==
  \A id \in CallIds :
     (id \notin DOMAIN players \/ players[id].isFinished \/ gameStatus # "in-progress")
       => /\ Refused(hit(Cur, id))
          /\ Refused(stand(Cur, id))
          /\ Refused(doubleDown(Cur, id))

\* a round has settled and a participant with two cards is still unfinished:
\* only the engine not being in progress refuses a call for that participant
C4_UnfinishedAfterSettlement ==
  /\ gameStatus = "game-over"
  /\ \E id \in DOMAIN players : ~players[id].isFinished /\ Len(players[id].hand) = 2

(***************************************************************************)
(* C5  hit(id), stand(id) or doubleDown(id) invoked for a participant who  *)
(* is not the current turn-active participant is rejected and mutates      *)
(* nothing.                                                                *)
(***************************************************************************)
C5_OutOfTurnCallsRejected ==
  \A id \in CallIds :
     (id \notin DOMAIN players \/ ~players[id].turn)
       => /\ Refused(hit(Cur, id))
          /\ Refused(stand(Cur, id))
          /\ Refused(doubleDown(Cur, id))

(***************************************************************************)
(* C6  Until settlement the pot reported by the engine equals the sum of   *)
(* all participants' totalBet, for any sequence of ante collection, bet    *)
(* placement (PlayerManager.placeBet or the bet handler) and double-down.  *)
(***************************************************************************)
TotalWagers == SetSum([id \in DOMAIN players |-> players[id].totalBet], DOMAIN players)

C6_PotEqualsWagers == gameStatus = "in-progress" => pot = TotalWagers

(***************************************************************************)
(* C7  Settlement credits each participant it classifies what the outcome  *)
(* pays on the participant's totalBet (loss 0, push totalBet, win twice    *)
(* totalBet, blackjack floor(totalBet * 2.5)) and nothing to anyone else;  *)
(* the total is not limited by the pot, and the pot stays as collected.    *)
(***************************************************************************)
\* what this step credits to all participants but the dealer
TotalCredited == SetSum([id \in NonDealers |-> Credited(id)], NonDealers)
\* what this step wagers, the dealer included
TotalWagered == SetSum([id \in DOMAIN players |-> Wagered(id)], DOMAIN players)
TotalPayout ==
  SetSum([id \in Humans |-> Payout(Outcome(players', id), players'[id].totalBet)], Humans)

C7_SettlementPaysByOutcome ==
  [][Settles => /\ TotalCredited = TotalPayout
                /\ players'[DealerId].stats.totalWinnings =
                     players[DealerId].stats.totalWinnings
                /\ pot' = pot + TotalWagered]_vars

\* C7 as stated: the total credited at settlement is no more than the pot
\* holds, and less than the pot only by a remainder of the division among
\* the participants
C7_PayoutsEqualPot ==
  [][Settles => /\ TotalCredited <= pot'
                /\ pot' - TotalCredited < Cardinality(DOMAIN players)]_vars

\* a settled round in which a winner was credited more than the pot holds
C7_WinnerPaidMoreThanPot ==
  /\ evalCount = 1
  /\ \E id \in Humans :
        /\ players[id].status = "winner"
        /\ players[id].stats.totalWinnings - statsAtStart[id].totalWinnings > pot

(***************************************************************************)
(* C8  awardPot(winnerIds) credits each listed known participant           *)
(* floor(pot / |winnerIds|), the sum credited never exceeds the pot held   *)
(* before the call, the pot is 0 afterwards, and with an empty winner list *)
(* nothing changes.                                                        *)
(***************************************************************************)
\* how often id is listed in winnerIds
Listings(winnerIds, id) == Cardinality({k \in 1..Len(winnerIds) : winnerIds[k] = id})

AwardedByFloor(winnerIds) ==
  LET after == awardPot(Cur, winnerIds)
      share == pmPot \div Len(winnerIds)
      known == {k \in 1..Len(winnerIds) : winnerIds[k] \in DOMAIN players}
  IN IF Len(winnerIds) = 0 THEN after = Cur
     ELSE /\ after.pmPot = 0
          /\ share * Cardinality(known) <= pmPot
          /\ \A id \in DOMAIN players :
                /\ after.players[id].bank =
                     Plus(players[id].bank, share * Listings(winnerIds, id))
                /\ after.players[id].stats.totalWinnings =
                     players[id].stats.totalWinnings + share * Listings(winnerIds, id)

C8_AwardPotSplitsByFloor == \A winnerIds \in WinnerLists : AwardedByFloor(winnerIds)

\* awardPot has split a pot of 25 (an ante and a bet) between two listed
\* winners: the pot is empty and a winner holds a share of 12
C8_OddPotSplit ==
  pmPot = 0 /\ \E id \in DOMAIN players : players[id].stats.totalWinnings = 12

(***************************************************************************)
(* C9  In every reachable state at most one participant has turnActive =   *)
(* true; while a round is in progress exactly one does, and between        *)
(* rounds (after settlement, before the next start) none does.             *)
(***************************************************************************)
TurnActive == {id \in DOMAIN players : players[id].turn}

C9_OneTurnActive ==
  /\ Cardinality(TurnActive) <= 1
  /\ gameStatus = "in-progress" => Cardinality(TurnActive) = 1
  /\ gameStatus # "in-progress" => Cardinality(TurnActive) = 0

\* C9, first part alone: at most one participant is turn-active
C9_AtMostOneTurnActive == Cardinality(TurnActive) <= 1

(***************************************************************************)
(* C10  At every state from start() until the next start(), the cards in   *)
(* the shoe together with the cards in all participants' hands are exactly *)
(* the 52 distinct cards of one deck.                                      *)
(***************************************************************************)
RECURSIVE HandsOf(_)
\* the hands of the participants ids, one after the other
HandsOf(ids) == IF ids = <<>> THEN <<>> ELSE players[Head(ids)].hand \o HandsOf(Tail(ids))

CardsInPlay == cards \o HandsOf(order)

C10_CardConservation ==
  round >= 1 =>
     /\ Len(CardsInPlay) = Len(initialize)
     /\ {CardsInPlay[k] : k \in 1..Len(CardsInPlay)} =
        {initialize[k] : k \in 1..Len(initialize)}

\* in the second round a participant holds four cards or more
C10_DrawnInSecondRound ==
  round = 2 /\ \E id \in DOMAIN players : Len(players[id].hand) >= 4

(***************************************************************************)
(* C11  After reset() the shoe holds exactly 52 cards, one for each        *)
(* (suit, rank) pair; 52 consecutive draws each return a distinct card and *)
(* leave the shoe empty; every further draw returns no card and leaves the *)
(* shoe unchanged.                                                         *)
(***************************************************************************)
SuitRankPairs ==
  {Card(Suit[i], Rank[j]) : i \in 1..Len(Suit), j \in 1..Len(Rank)}
Elements(seq) == {seq[k] : k \in 1..Len(seq)}
\* the draws that returned a card
Returned == {k \in 1..Len(drawn) : drawn[k] # NoCard}

C11_ResetThenDrawToExhaustion ==
  /\ \A stream \in RandomStreams :
        Len(reset(stream)) = 52 /\ Elements(reset(stream)) = SuitRankPairs
  /\ Cardinality(SuitRankPairs) = 52
  /\ \A k \in 1..Len(drawn) : (k <= 52) = (drawn[k] # NoCard)
  /\ \A j, k \in Returned : j # k => drawn[j] # drawn[k]
  /\ Elements(cards) \cup {drawn[k] : k \in Returned} = SuitRankPairs
  /\ Len(cards) = 52 - Cardinality(Returned)
  /\ Len(drawn) >= 52 => cards = <<>>

\* 52 draws emptied the deck and a 53rd draw was made
C11_DrawnPastExhaustion ==
  cards = <<>> /\ Len(drawn) = 53 /\ drawn[53] = NoCard

(***************************************************************************)
(* C12  For every hand, calculateHandValue returns best equal to the       *)
(* largest total not exceeding 21 obtainable by counting each Ace as 1 or  *)
(* 11 (face cards 10, others their number), or the all-Aces-as-1 total     *)
(* when there is none; aceAsEleven is the total with every Ace as 11,      *)
(* aceAsOne the total with every Ace as 1, isBusted holds iff best > 21    *)
(* (iff aceAsOne > 21), and best = aceAsEleven whenever aceAsEleven <= 21. *)
(***************************************************************************)
\* the hand that is built and what getPlayerHandValue returns for it
TheHand == players[HandOwner].hand
TheValue == getPlayerHandValue(Cur, HandOwner)

\* the number a rank counts, an Ace apart: the position of the rank among
\* A, 2, ..., 10, J, Q, K, and 10 for a face card
Pips(rank) ==
  LET k == CHOOSE j \in 1..Len(Rank) : Rank[j] = rank IN IF k > 10 THEN 10 ELSE k
Aces(hand) == {k \in 1..Len(hand) : hand[k].rank = "A"}
OtherCards(hand) == (1..Len(hand)) \ Aces(hand)
OtherTotal(hand) == SetSum([k \in OtherCards(hand) |-> Pips(hand[k].rank)], OtherCards(hand))
\* the totals of a hand, by the number of Aces counted as 11
Totals(hand) ==
  {OtherTotal(hand) + 11 * high + (Cardinality(Aces(hand)) - high) :
     high \in 0..Cardinality(Aces(hand))}
AllAcesAsOne(hand) == OtherTotal(hand) + Cardinality(Aces(hand))
AllAcesAsEleven(hand) == OtherTotal(hand) + 11 * Cardinality(Aces(hand))
BestTotal(hand) ==
  IF \E t \in Totals(hand) : t <= 21
  THEN CHOOSE t \in Totals(hand) : t <= 21 /\ \A u \in Totals(hand) : u <= 21 => u <= t
  ELSE AllAcesAsOne(hand)

C13_BlackjackIsTwoCard21 ==
  /\ TheValue.isBlackjack = (Len(TheHand) = 2 /\ BestTotal(TheHand) = 21)
  /\ TheHand = <<>> => TheValue.best = 0 /\ ~TheValue.isBusted /\ ~TheValue.isBlackjack

\* a hand of three cards that totals 21
C13_ThreeCard21 ==
  Len(TheHand) = 3 /\ TheValue.best = 21 /\ ~TheValue.isBlackjack

(***************************************************************************)
(* C14  A participant with bank 100 who antes 10 and is dealt {A, 9} while *)
(* the dealer is dealt {9, 9} holds 20, not a blackjack, and is settled as *)
(* an ordinary win: settlement awards 10 * 2 = 20, the status is winner    *)
(* and the bank ends at 100 - 10 + 20 = 110.  Dealt {A, K} the participant *)
(* is settled as a blackjack win: floor(10 * 2.5) = 25, bank 115.          *)
(***************************************************************************)
\* the round has settled with these two cards in the participant's hand and
\* {9, 9} in the dealer's, the ante of 10 being the only wager
SettledHolding(rank1, rank2) ==
  /\ evalCount = 1
  /\ players[AddedHuman].hand = <<Card("spades", rank1), Card("spades", rank2)>>
  /\ players[DealerId].hand = <<Card("hearts", "9"), Card("diamonds", "9")>>
  /\ players[AddedHuman].totalBet = 10

\* the participant was awarded amount, is a winner and holds bank
Awarded(amount, bank) ==
  /\ players[AddedHuman].stats.totalWinnings = amount
  /\ players[AddedHuman].status = "winner"
  /\ players[AddedHuman].bank = bank

C14_AceNineWinsTwice ==
  /\ SettledHolding("A", "9") =>
        /\ ~getPlayerHandValue(Cur, AddedHuman).isBlackjack
        /\ Awarded(20, 110)
  /\ SettledHolding("A", "K") =>
        /\ getPlayerHandValue(Cur, AddedHuman).isBlackjack
        /\ Awarded(25, 115)

\* C14 as stated: {A, 9} against {9, 9} is settled as a blackjack win of 25
\* and the bank ends at 115
C14_AceNineIsBlackjackWin == SettledHolding("A", "9") => Awarded(25, 115)

\* the round of the scenario has settled
C14_AceNineSettled == SettledHolding("A", "9") /\ pot = 10

(***************************************************************************)
(* C15  When a non-busted participant and the dealer have equal best       *)
(* totals and neither or both have blackjack, settlement refunds exactly   *)
(* the participant's totalBet, increments neither the games-won, the       *)
(* games-lost nor the games-played counter, and does not set the status to *)
(* winner or loser.                                                        *)
(***************************************************************************)
\* the hands of id and of the dealer after this step are a push
PushFor(id) ==
  LET p == calculateHandValue(players'[id].hand)
      d == calculateHandValue(players'[DealerId].hand)
  IN ~p.isBusted /\ p.best = d.best /\ p.isBlackjack = d.isBlackjack

\* this step refunds the wager of id and records neither a win nor a loss
RefundedInFull(id) ==
  /\ Credited(id) = players'[id].totalBet
  /\ players'[id].stats.numberOfGamesWon = players[id].stats.numberOfGamesWon
  /\ players'[id].stats.numberOfGamesLost = players[id].stats.numberOfGamesLost
  /\ players'[id].stats.numberOfGamesPlayed = players[id].stats.numberOfGamesPlayed
  /\ players'[id].status \notin {"winner", "loser"}

C15_PushRefundsWager ==
  [][Settles => \A id \in NonDealers : PushFor(id) => RefundedInFull(id)]_vars

\* C15 for the participants that are not automated
C15_HumanPushRefundsWager ==
  [][Settles => \A id \in Humans : PushFor(id) => RefundedInFull(id)]_vars

(***************************************************************************)
(* C16: nextActivePlayer                                                   *)
(***************************************************************************)
Seats == Len(turnOrder)
\* the 0-based seat k steps after the cursor, circularly
SeatAfter(k) == (currentPlayerIndex + k) % Seats
Seated(seat) == turnOrder[seat + 1]
\* the participant at the seat is not finished and has status ok
Eligible(seat) ==
  /\ Seated(seat) \in DOMAIN players
  /\ ~players[Seated(seat)].isFinished
  /\ players[Seated(seat)].status = "ok"
\* the steps to the first eligible seat after the cursor (at most one)
FirstEligible ==
  {k \in 1..Seats : Eligible(SeatAfter(k)) /\ \A j \in 1..(k - 1) : ~Eligible(SeatAfter(j))}
Advanced == nextActivePlayer(Cur)
\* the call returned the participant at the seat, whose turn it started
LandsOn(seat) ==
  /\ Advanced.found
  /\ Advanced.currentPlayerIndex = seat
  /\ Advanced.players[Seated(seat)].turn
  /\ Advanced.players[Seated(seat)].lastAction = "start-turn"
  /\ \A id \in DOMAIN players \ {Seated(seat)} : ~Advanced.players[id].turn
  /\ \E i \in 1..Len(Advanced.events) :
        /\ Advanced.events[i].type = "turnchange"
        /\ Advanced.events[i].player = Seated(seat)
        /\ Advanced.events[i].action = "start-turn"
\* the call returned no participant: the cursor went once round the table
ReturnsNobody ==
  /\ ~Advanced.found
  /\ Advanced.currentPlayerIndex = currentPlayerIndex
  /\ Advanced.players = players
  /\ Advanced.events = <<>>
FirstEligibleRule ==
  /\ \A k \in FirstEligible : LandsOn(SeatAfter(k))
  /\ FirstEligible = {} => ReturnsNobody

\* C16: nextActivePlayer moves the cursor forward circularly to the first
\* participant after the current one that is not finished and has status ok,
\* starts that participant's turn and returns it; with the turn order
\* [A, B, dealer], the cursor on A and B finished it lands on the dealer;
\* when no participant of the turn order is eligible it returns no participant
\* and the cursor has gone round the table once
C16_NextActiveIsFirstEligible ==
  /\ Seats > 0 => FirstEligibleRule
  /\ ( /\ turnOrder = <<AddedHuman, AddedNPC, DealerId>>
       /\ currentPlayerIndex = 0
       /\ players[AddedNPC].isFinished
       /\ Eligible(2) )
     => LandsOn(2)

\* three seats, the cursor on the first, the second finished, the dealer next
C16_SecondSeatFinished ==
  /\ turnOrder = <<AddedHuman, AddedNPC, DealerId>>
  /\ currentPlayerIndex = 0
  /\ players[AddedNPC].isFinished
  /\ Eligible(2)
  /\ LandsOn(2)

\* nobody at the table is eligible and the call returns no participant
C16_NobodyEligible ==
  /\ Seats = 3
  /\ FirstEligible = {}
  /\ ReturnsNobody

\* C16 with the participants whose id is undefined passed over
FirstIdentified ==
  {k \in 1..Seats :
     /\ Truthy(Seated(SeatAfter(k))) /\ Eligible(SeatAfter(k))
     /\ \A j \in 1..(k - 1) :
          ~(Truthy(Seated(SeatAfter(j))) /\ Eligible(SeatAfter(j)))}
C16_NextActiveAmongIdentified ==
  Seats > 0 =>
    /\ \A k \in FirstIdentified : LandsOn(SeatAfter(k))
    /\ FirstIdentified = {} => ReturnsNobody

\* an eligible participant with an undefined id is passed over
C16_EligiblePassedOver ==
  /\ Seats > 0
  /\ \E k \in FirstEligible : Seated(SeatAfter(k)) = UndefinedId
  /\ ~FirstEligibleRule

(***************************************************************************)
(* C17: placeBet, placeAnte, doubleBet                                     *)
(***************************************************************************)
Wagerer == players[WagerOwner]
\* the wager fields of a player
Wager(p) == <<p.bank, p.currentBet, p.totalBet>>
\* the amount is not positive or exceeds the bank
Unaffordable(amount) == amount <= 0 \/ amount > Wagerer.bank

PlaceBetRule(amount) ==
  IF Unaffordable(amount)
  THEN ~placeBetOk(Wagerer, amount) /\ placeBet(Wagerer, amount) = Wagerer
  ELSE /\ placeBetOk(Wagerer, amount)
       /\ Wager(placeBet(Wagerer, amount))
            = <<Wagerer.bank - amount, amount, Wagerer.totalBet + amount>>

PlaceAnteRule(amount) ==
  IF Unaffordable(amount)
  THEN ~placeAnteOk(Wagerer, amount) /\ placeAnte(Wagerer, amount) = Wagerer
  ELSE /\ placeAnteOk(Wagerer, amount)
       /\ Wager(placeAnte(Wagerer, amount))
            = <<Wagerer.bank - amount, Wagerer.currentBet, Wagerer.totalBet + amount>>

DoubleBetRule ==
  IF Wagerer.bank < Wagerer.currentBet
  THEN ~doubleBetOk(Wagerer) /\ doubleBet(Wagerer) = Wagerer
  ELSE /\ doubleBetOk(Wagerer)
       /\ Wager(doubleBet(Wagerer))
            = <<Wagerer.bank - Wagerer.currentBet, 2 * Wagerer.currentBet,
                Wagerer.totalBet + Wagerer.currentBet>>

\* a step either clears the wagers or adds to totalBet what it takes from the bank
DeductionsAddUp ==
  \/ /\ players'[WagerOwner].totalBet = 0
     /\ players'[WagerOwner].bank = Wagerer.bank
  \/ players'[WagerOwner].totalBet - Wagerer.totalBet
       = Wagerer.bank - players'[WagerOwner].bank

\* C17: placeBet(amount) and placeAnte(amount) return false and change nothing
\* when amount <= 0 or amount > bank; on success both take amount from the bank
\* and add it to totalBet, placeBet sets currentBet to amount and placeAnte
\* leaves currentBet alone; doubleBet() fails without change when
\* bank < currentBet and otherwise takes the old currentBet from the bank,
\* doubles currentBet and adds the old currentBet to totalBet; so totalBet is
\* the sum of what these operations took from the bank since the last clear
C17_WagerOperations ==
  /\ [](/\ \A amount \in WagerAmounts \cup {Wagerer.bank, Wagerer.bank + 1} :
             PlaceBetRule(amount) /\ PlaceAnteRule(amount)
        /\ DoubleBetRule)
  /\ [][DeductionsAddUp]_vars

\* a doubled bet that cannot be doubled again, after an ante as well
C17_CannotDoubleAgain ==
  /\ Wagerer.currentBet = 80
  /\ Wagerer.bank < Wagerer.currentBet
  /\ Wagerer.totalBet > Wagerer.currentBet

(***************************************************************************)
(* C18: bank, currentBet and totalBet are never negative                   *)
(***************************************************************************)
\* C18: every participant's bank, currentBet and totalBet are >= 0 in every
\* reachable state, whatever the sequence of start, wagers, hit, stand,
\* doubleDown and settlement
C18_WagersNeverNegative ==
  \A id \in DOMAIN players :
     /\ players[id].bank >= 0
     /\ players[id].currentBet >= 0
     /\ players[id].totalBet >= 0

\* a participant who lost everything sits in a second round without an ante
C18_PlayingWithEmptyBank ==
  /\ round = 2
  /\ isGameActive
  /\ players[AddedHuman].bank = 0
  /\ players[AddedHuman].totalBet = 0
  /\ ~placeAnteOk(players[AddedHuman], ante)
  /\ ~placeBetOk(players[AddedHuman], 15)

(***************************************************************************)
(* C19: the turn order during a round                                      *)
(***************************************************************************)
\* C19: turn-order membership is fixed once a round is in progress: between
\* start() and settlement no participant is added to or removed from the
\* turn order, so adding or removing a participant during a round changes
\* neither the set nor the order of the participants taking turns
C19_TurnOrderFixedDuringRound ==
  [][isGameActive => turnOrder' = turnOrder]_vars

\* a participant who joined during the round, and was dealt no card, is
\* taking a turn of the round
C19_JoinedDuringRound ==
  /\ isGameActive
  /\ turnOrder = <<AddedHuman, DealerId, AddedNPC>>
  /\ players[AddedNPC].hand = <<>>
  /\ players[AddedNPC].turn

\* the dealer left during the round
C19_DealerLeftDuringRound ==
  /\ isGameActive
  /\ turnOrder = <<AddedHuman>>

(***************************************************************************)
(* C20: detaching the agent                                                *)
(***************************************************************************)
\* the step takes one pending callback of the agent for id and does nothing else
OnlyConsumesCallback(id) ==
  /\ timers' = [timers EXCEPT ![TimerKey("agent", id)] = @ - 1]
  /\ UNCHANGED <<players, order, turnOrder, currentPlayerIndex, pmPot, ante,
                 pmRound, cards, isGameActive, gameStatus, pot, round, winnerId,
                 loserId, agentGame, agentHandler, currentPlayerId, evalCount,
                 gameOverCount>>
\* detaching changes nothing of the engine and leaves the pending callbacks
DetachOnlyUnsubscribes ==
  Detach =>
    /\ ~agentGame' /\ ~agentHandler'
    /\ UNCHANGED <<players, order, turnOrder, currentPlayerIndex, pmPot, ante,
                   pmRound, cards, isGameActive, gameStatus, pot, round, winnerId,
                   loserId, timers, currentPlayerId, evalCount, gameOverCount>>

\* C20: when the agent is detached after a turn-start notification scheduled
\* its deferred callback and before the callback fires, the callback performs
\* no engine action (no hit, stand or doubleDown) when it fires; detaching
\* is safe whether or not the round has ended
C20_DetachedCallbackDoesNothing ==
  [][/\ \A id \in Ids : (~agentGame /\ AgentTimer(id)) => OnlyConsumesCallback(id)
     /\ DetachOnlyUnsubscribes]_vars

\* detached during a round while the callback for the dealer, who would hit,
\* is pending
C20_DetachedWithCallbackPending ==
  /\ ~agentGame
  /\ isGameActive
  /\ timers[TimerKey("agent", DealerId)] > 0
  /\ ~players[DealerId].isFinished
  /\ getPlayerHandValue(Cur, DealerId).best <= 16

\* detached with a callback pending after the round has ended
C20_DetachedAfterRound ==
  /\ ~agentGame
  /\ gameStatus = "game-over"
  /\ \E id \in Ids : timers[TimerKey("agent", id)] > 0

(***************************************************************************)
(* C21: deferred callbacks that outlive their round                        *)
(***************************************************************************)
\* a later round has begun and nothing in it has scheduled a callback yet:
\* the first participant is not automated (its turn start schedules nothing)
\* and nobody has finished (advanceTurn has not run), so every pending
\* callback was scheduled in an earlier round
OnlyStaleCallbacks ==
  /\ round >= 2
  /\ isGameActive
  /\ Len(turnOrder) > 0
  /\ ~players[turnOrder[1]].isNPC
  /\ \A id \in DOMAIN players : ~players[id].isFinished
\* a deferred callback for id fires
CallbackFires(id) == EngineTimer(id) \/ AgentTimer(id)
\* the step draws no card, finishes nobody and leaves the turn cursor
NoPlayInRound ==
  /\ cards' = cards
  /\ \A id \in DOMAIN players :
        /\ players'[id].hand = players[id].hand
        /\ players'[id].isFinished = players[id].isFinished
  /\ currentPlayerIndex' = currentPlayerIndex

\* C21: an automated decision scheduled during round N (by the timer of
\* advanceTurn or by the agent's turn-start timer) that fires after start()
\* has begun round N+1 draws no card, finishes no participant and does not
\* move the turn cursor unless that automated participant holds the turn
C21_StaleCallbacksHarmless ==
  [][\A id \in DOMAIN players :
       (OnlyStaleCallbacks /\ ~players[id].turn /\ CallbackFires(id))
         => NoPlayInRound]_vars

\* a callback of the first round is pending for the dealer in the second
\* round, during the turn of another participant
C21_StaleCallbackPending ==
  /\ OnlyStaleCallbacks
  /\ ~players[DealerId].turn
  /\ \E source \in TimerSources : timers[TimerKey(source, DealerId)] > 0

(***************************************************************************)
(* C22: hit on an empty shoe                                               *)
(***************************************************************************)
\* the participants for whom hit passes its guard
CanAct == {id \in DOMAIN players : ~rejected(Cur, id)}
\* the call s returned failure and left the engine as it is
FailedWithoutEffect(s) ==
  /\ ~s.ret
  /\ s.players = players /\ s.order = order /\ s.turnOrder = turnOrder
  /\ s.currentPlayerIndex = currentPlayerIndex
  /\ s.cards = cards /\ s.pot = pot /\ s.pmPot = pmPot
  /\ s.isGameActive = isGameActive /\ s.gameStatus = gameStatus
  /\ s.round = round /\ s.winnerId = winnerId /\ s.loserId = loserId
  /\ s.timers = timers /\ s.evalCount = evalCount
  /\ s.gameOverCount = gameOverCount

\* C22: when the shoe is empty, hit(id) for an otherwise valid participant
\* leaves the participant's hand, flags and bets and the turn cursor
\* unchanged and returns failure, and the round stays in progress: the
\* failed draw neither aborts nor settles it
C22_HitOnEmptyShoeIsNoOp ==
  cards = <<>> =>
    \A id \in CanAct : isGameActive /\ FailedWithoutEffect(hit(Cur, id))

\* a round in progress with an empty shoe and a participant who may act
C22_EmptyShoeInRound ==
  /\ cards = <<>>
  /\ isGameActive
  /\ CanAct # {}
  /\ \A id \in CanAct : ~hit(Cur, id).ret

(***************************************************************************)
(* C23: the game-over notification                                         *)
(***************************************************************************)
\* the states reached by the calls of a participant that can end the round
CallResults ==
  UNION {{stand(Cur, id), hit(Cur, id), doubleDown(Cur, id)} : id \in DOMAIN players}
\* the game-over notifications emitted during the call s
GameOverEvents(s) ==
  {s.events[i] : i \in {j \in 1..Len(s.events) : s.events[j].type = "gameover"}}
\* the participants for whom the call s recorded a win, a loss
RecordedWins(s) ==
  {id \in DOMAIN players :
     s.players[id].stats.numberOfGamesWon > players[id].stats.numberOfGamesWon}
RecordedLosses(s) ==
  {id \in DOMAIN players :
     s.players[id].stats.numberOfGamesLost > players[id].stats.numberOfGamesLost}
\* the notification e reports the outcome recorded by the call s; the dealer
\* counts as having won when a participant lost
ReportsOutcome(s, e) ==
  /\ RecordedWins(s) \subseteq Elements(e.winners)
  /\ RecordedLosses(s) \subseteq Elements(e.losers)
  /\ e.winners = <<>> <=> (RecordedWins(s) = {} /\ RecordedLosses(s) = {})

\* C23: the game-over notification reports the outcome of the round: its
\* winners list contains every participant that settlement recorded as a win
\* and its losers list every participant recorded as a loss, for any number
\* of non-dealer participants, and winners is empty exactly when nobody won
C23_GameOverReportsOutcome ==
  \A s \in CallResults : \A e \in GameOverEvents(s) : ReportsOutcome(s, e)

\* C23 for a table with one participant beside the dealer
C23_SingleParticipantOutcome ==
  Cardinality(DOMAIN players \ {DealerId}) <= 1 => C23_GameOverReportsOutcome

\* a call settles a round in which one participant won and another lost
C23_OneWonOneLost ==
  \E s \in CallResults :
     /\ GameOverEvents(s) # {}
     /\ RecordedWins(s) # {}
     /\ RecordedLosses(s) # {}

(***************************************************************************)
(* C24: Player.toJSON and Player.fromJSON                                  *)
(***************************************************************************)
Restored(id) == fromJSON(toJSON(players[id]))

\* C24: Player.fromJSON(p.toJSON()) is a participant with the id, isNPC flag,
\* bank and statistics of p, and with an empty hand, currentBet = 0,
\* totalBet = 0, not finished, not turn-active and status ok, whatever the
\* state of p in the round
C24_SnapshotRoundTrip ==
  \A id \in DOMAIN players :
     /\ Restored(id).id = players[id].id
     /\ Restored(id).isNPC = players[id].isNPC
     /\ Restored(id).bank = players[id].bank
     /\ Restored(id).stats = players[id].stats
     /\ Restored(id).hand = <<>>
     /\ Restored(id).currentBet = 0
     /\ Restored(id).totalBet = 0
     /\ ~Restored(id).isFinished
     /\ ~Restored(id).turn
     /\ Restored(id).status = "ok"

\* a participant in the middle of a second round: cards, a bet, the turn, a
\* blackjack and statistics of the first round
C24_SnapshotInRound ==
  \E id \in DOMAIN players :
     /\ players[id].hand # <<>>
     /\ players[id].currentBet > 0
     /\ players[id].turn
     /\ players[id].status = "blackjack"
     /\ players[id].stats.numberOfGamesPlayed > 0
     /\ Restored(id) # players[id]

(***************************************************************************)
(* C25: a successful hit                                                   *)
(***************************************************************************)
\* the call s advanced the turn: it settled the round, or it started the
\* turn of a participant who is not finished and has status ok
TurnAdvanced(s) ==
  \/ s.evalCount = evalCount + 1
  \/ /\ s.evalCount = evalCount
     /\ getCurrentPlayer(s) # Null
     /\ s.players[getCurrentPlayer(s)].turn
     /\ ~s.players[getCurrentPlayer(s)].isFinished
     /\ s.players[getCurrentPlayer(s)].status = "ok"
     /\ \E i \in 1..Len(s.events) :
           /\ s.events[i].type = "turnchange"
           /\ s.events[i].player = getCurrentPlayer(s)
           /\ s.events[i].action = "start-turn"
\* the call s recorded a bust for id; a settlement in the same call turns
\* the status busted into loser
BustRecorded(s, id) ==
  /\ s.players[id].stats.numberOfTimesBusted
       = players[id].stats.numberOfTimesBusted + 1
  /\ s.players[id].isFinished
  /\ \/ s.players[id].status = "busted"
     \/ s.evalCount = evalCount + 1 /\ s.players[id].status = "loser"
HitRule(s, id) ==
  LET best == calculateHandValue(s.players[id].hand).best
  IN /\ Len(s.players[id].hand) = Len(players[id].hand) + 1
     /\ s.players[id].isFinished <=> best >= 21
     /\ best > 21 => BustRecorded(s, id) /\ TurnAdvanced(s)
     /\ best = 21 => TurnAdvanced(s)
     /\ best < 21 =>
          /\ s.currentPlayerIndex = currentPlayerIndex
          /\ s.evalCount = evalCount
          /\ s.players[id].status = players[id].status

\* C25: after a successful hit(id) the participant holds exactly one more
\* card and is finished iff the new best is >= 21: busted, a bust is
\* recorded (status busted, finished) and the turn advances; at exactly 21
\* stand(id) is applied; below 21 the participant stays unfinished and the
\* turn cursor does not move
C25_HitOutcome ==
  \A id \in DOMAIN players : hit(Cur, id).ret => HitRule(hit(Cur, id), id)

\* a hit brings a hand of two or more cards to exactly 21
C25_HitReaches21 ==
  \E id \in DOMAIN players :
     /\ hit(Cur, id).ret
     /\ calculateHandValue(hit(Cur, id).players[id].hand).best = 21
     /\ hit(Cur, id).evalCount = evalCount

\* a hit busts the participant and the round goes on
C25_HitBusts ==
  \E id \in DOMAIN players :
     /\ hit(Cur, id).ret
     /\ calculateHandValue(hit(Cur, id).players[id].hand).best > 21
     /\ hit(Cur, id).evalCount = evalCount

(***************************************************************************)
(* C26: doubleDown                                                         *)
(***************************************************************************)
\* doubleDown(id) is to be rejected: the guard fails, the hand does not hold
\* two cards, or the bank does not cover the current bet
DoubleDownRefused(id) ==
  \/ id \notin DOMAIN players
  \/ players[id].isFinished
  \/ ~isGameActive
  \/ Len(players[id].hand) # 2
  \/ players[id].bank < players[id].currentBet
DoubleDownRule(s, id) ==
  IF DoubleDownRefused(id) THEN FailedWithoutEffect(s)
  ELSE /\ s.ret
       /\ Len(s.players[id].hand) = Len(players[id].hand) + 1
       /\ s.players[id].isFinished
       /\ TurnAdvanced(s)

\* C26: doubleDown(id) is rejected without any change when the guard fails,
\* the hand size is not 2 or the bet cannot be doubled; every accepted
\* doubleDown adds exactly one card to the hand of the participant, marks
\* the participant finished whatever the total, and advances the turn
C26_DoubleDownOutcome ==
  \A id \in DOMAIN players \cup {UnknownId} : DoubleDownRule(doubleDown(Cur, id), id)

\* C26 while the shoe holds a card
C26_DoubleDownWithCard ==
  cards # <<>> => C26_DoubleDownOutcome

\* a doubleDown is accepted while the shoe is empty
C26_AcceptedOnEmptyShoe ==
  /\ cards = <<>>
  /\ \E id \in DOMAIN players :
        /\ doubleDown(Cur, id).ret
        /\ doubleDown(Cur, id).players[id].hand = players[id].hand
        /\ doubleDown(Cur, id).players[id].isFinished

(***************************************************************************)
(* C27: the pot after doubleDown                                           *)
(***************************************************************************)
\* the accepted call s took the current bet of id from the bank (winnings
\* credited by a settlement in the same call set apart) and added it to the pot
FullWagerToPot(s, id) ==
  /\ s.pot = pot + players[id].currentBet
  /\ s.players[id].currentBet = 2 * players[id].currentBet
  /\ s.players[id].totalBet = players[id].totalBet + players[id].currentBet
  /\ ~IsInfinite(players[id].bank) =>
        s.players[id].bank
          = players[id].bank - players[id].currentBet
            + (s.players[id].stats.totalWinnings - players[id].stats.totalWinnings)

\* C27: on every accepted doubleDown the pot of the engine grows by the full
\* additional wager, the current bet before doubling that is taken from the
\* bank of the participant, not by half of it
C27_DoubleDownFillsPot ==
  \A id \in DOMAIN players :
     doubleDown(Cur, id).ret => FullWagerToPot(doubleDown(Cur, id), id)

\* a participant who has bet 15 may double down
C27_DoubleDownOnBet ==
  \E id \in DOMAIN players :
     /\ players[id].currentBet = 15
     /\ ~IsInfinite(players[id].bank)
     /\ doubleDown(Cur, id).ret
     /\ doubleDown(Cur, id).pot = pot + 15

(***************************************************************************)
(* C28: stand                                                              *)
(***************************************************************************)
\* the steps from the cursor to the first seat that holds an eligible
\* participant other than id, who has just stood
FirstEligibleBeside(id) ==
  {k \in 1..Seats :
     /\ Seated(SeatAfter(k)) # id /\ Eligible(SeatAfter(k))
     /\ \A j \in 1..(k - 1) :
          ~(Seated(SeatAfter(j)) # id /\ Eligible(SeatAfter(j)))}
\* the call s drew no card and changed no bet
NoCardNoBet(s) ==
  /\ s.cards = cards /\ s.pot = pot
  /\ \A k \in DOMAIN players :
        /\ s.players[k].hand = players[k].hand
        /\ s.players[k].currentBet = players[k].currentBet
        /\ s.players[k].totalBet = players[k].totalBet
\* the call s started the turn of the participant at the seat and settled nothing
TurnPassedTo(s, seat) ==
  /\ s.evalCount = evalCount
  /\ s.isGameActive
  /\ s.currentPlayerIndex = seat
  /\ s.players[Seated(seat)].turn
  /\ \A k \in DOMAIN players \ {Seated(seat)} : ~s.players[k].turn
  /\ \A k \in DOMAIN players : s.players[k].bank = players[k].bank
StandRule(s, id, first) ==
  /\ s.ret
  /\ s.players[id].isFinished
  /\ NoCardNoBet(s)
  /\ \A k \in first : TurnPassedTo(s, SeatAfter(k))
  /\ first = {} => s.evalCount = evalCount + 1

\* C28: stand(id) on a valid, unfinished participant in a round in progress
\* marks that participant finished, draws no card and changes no bank or
\* bet, then advances the turn: the next eligible participant becomes
\* turn-active, or settlement runs if there is none
C28_StandOutcome ==
  \A id \in CanAct : StandRule(stand(Cur, id), id, FirstEligibleBeside(id))

\* C28 with the participants whose id is undefined passed over
FirstIdentifiedBeside(id) ==
  {k \in 1..Seats :
     /\ Truthy(Seated(SeatAfter(k)))
     /\ Seated(SeatAfter(k)) # id /\ Eligible(SeatAfter(k))
     /\ \A j \in 1..(k - 1) :
          ~(/\ Truthy(Seated(SeatAfter(j)))
            /\ Seated(SeatAfter(j)) # id /\ Eligible(SeatAfter(j)))}
C28_StandAmongIdentified ==
  \A id \in CanAct : StandRule(stand(Cur, id), id, FirstIdentifiedBeside(id))

\* a participant stands and the turn passes to the next one
C28_StandPassesTurn ==
  \E id \in CanAct :
     /\ FirstEligibleBeside(id) # {}
     /\ stand(Cur, id).evalCount = evalCount
     /\ stand(Cur, id).players[id].isFinished

\* the dealer stands while a participant with an undefined id has yet to play
C28_StandSkipsUnidentified ==
  /\ DealerId \in CanAct
  /\ \E k \in FirstEligibleBeside(DealerId) : Seated(SeatAfter(k)) = UndefinedId
  /\ stand(Cur, DealerId).evalCount = evalCount + 1

(***************************************************************************)
(* C29: the postcondition of start()                                       *)
(***************************************************************************)
\* the k-th card drawn from the shoe d
Dealt(d, k) == d[Len(d) - k + 1]
\* the two cards the participant at position i of seats receives when the
\* cards go round seats twice
TwoCardsOf(d, seats, i) == <<Dealt(d, i), Dealt(d, Len(seats) + i)>>
\* every participant of seats holds the cards dealt round seats from d
DealtAlong(t, d, seats) ==
  \A i \in 1..Len(seats) : t.players[seats[i]].hand = TwoCardsOf(d, seats, i)
\* the shoe of t and the hands hold the 52 cards once each
ShoeWasReset(t) ==
  /\ Elements(t.cards) \cup UNION {Elements(t.players[id].hand) : id \in DOMAIN players}
       = SuitRankPairs
  /\ Len(t.cards) + 2 * Cardinality(DOMAIN players) = 52
\* the flags, the bet and the status of every participant after the deal
FreshParticipants(t) ==
  \A id \in DOMAIN players :
     /\ Len(t.players[id].hand) = 2
     /\ ~t.players[id].isFinished
     /\ t.players[id].currentBet = 0
     /\ t.players[id].status \in {"ok", "blackjack"}
     /\ t.players[id].status = "blackjack"
          <=> calculateHandValue(t.players[id].hand).best = 21
\* the round statistics are those from before; a dealt blackjack is counted
StatsRetained(t) ==
  \A id \in DOMAIN players :
     /\ [t.players[id].stats EXCEPT !.numberOfTimesBlackjack = 0]
          = [players[id].stats EXCEPT !.numberOfTimesBlackjack = 0]
     /\ t.players[id].stats.numberOfTimesBlackjack
          = players[id].stats.numberOfTimesBlackjack
            + (IF t.players[id].status = "blackjack" THEN 1 ELSE 0)
\* the positions of the notifications of the given type among those of t
EventsOfType(t, type) == {i \in 1..Len(t.events) : t.events[i].type = type}
\* one state-change notification, emitted before every turn notification
StateChangeFirst(t) ==
  /\ Cardinality(EventsOfType(t, "statechange")) = 1
  /\ \A i \in EventsOfType(t, "statechange") :
        /\ t.events[i].action = "in-progress"
        /\ \A j \in EventsOfType(t, "turnchange") : i < j
\* the engine of t runs round + 1 with the cursor on the first seat
RoundOpened(t) ==
  /\ t.round = round + 1
  /\ t.currentPlayerIndex = 0
  /\ t.isGameActive /\ t.gameStatus = "in-progress"
\* the participant at the cursor is the one that is turn-active
FirstSeatActive(t) ==
  \A id \in DOMAIN players : t.players[id].turn <=> id = t.turnOrder[1]
\* the first seat is turn-active if its id is defined, nobody otherwise
FirstIdentifiedSeatActive(t) ==
  \A id \in DOMAIN players :
     t.players[id].turn <=> (id = t.turnOrder[1] /\ Truthy(id))
\* the first seat announced its turn
TurnStartNotified(t) ==
  \E j \in EventsOfType(t, "turnchange") :
     t.events[j].action = "start-turn" /\ t.events[j].player = t.turnOrder[1]

StartPostcondition(t, d, seats, active(_)) ==
  /\ RoundOpened(t)
  /\ ShoeWasReset(t)
  /\ FreshParticipants(t)
  /\ DealtAlong(t, d, seats)
  /\ StatsRetained(t)
  /\ StateChangeFirst(t)
  /\ active(t)

\* C29: after start(), from any prior state, the round counter is one
\* higher, the shoe was reset, every participant of the turn order holds
\* exactly two cards dealt in turn order, every participant is unfinished
\* with currentBet 0 and status ok or blackjack (blackjack iff the two cards
\* total 21), statistics are retained, the cursor is at index 0 with that
\* participant turn-active, the engine is in progress and one state-change
\* notification was emitted before the first turn-start notification
C29_StartPostcondition ==
  \A d \in Decks :
     /\ StartPostcondition(start(Cur, d), d, turnOrder, FirstSeatActive)
     /\ TurnStartNotified(start(Cur, d))

\* C29 with the cards dealt in the order the participants were registered
\* and a first seat with an undefined id left without its turn
C29_StartDealsInRegistrationOrder ==
  \A d \in Decks :
     StartPostcondition(start(Cur, d), d, order, FirstIdentifiedSeatActive)

\* a round can start while the turn order differs from the order in which
\* the participants were registered: the first card goes to the dealer
C29_DealerDealtFirst ==
  /\ round < MaxRounds
  /\ order # turnOrder
  /\ turnOrder[Len(turnOrder)] = DealerId
  /\ \E d \in Decks :
        start(Cur, d).players[DealerId].hand = TwoCardsOf(d, order, 1)

(***************************************************************************)
(* C30: the antes start() collects                                         *)
(***************************************************************************)
\* the antes a client may set before a round
AnteAmounts == {-5, 0, 10, 30}
\* the engine on which start() collects the antes: the bets of the previous
\* round were cleared by startNewRound
BeforeAntes(amount) == startNewRound(setAnte(Cur, amount))
\* the participants charged: all but the dealer that can afford the ante
Payers(b) ==
  {id \in NonDealers : b.players[id].bank >= b.ante /\ b.ante > 0}
\* t is b with the ante taken from the payers and nobody else touched
AntesCollected(b, t) ==
  /\ t.pmPot = b.ante * Cardinality(Payers(b))
  /\ \A id \in Payers(b) :
        /\ t.players[id].bank = b.players[id].bank - b.ante
        /\ t.players[id].totalBet = b.ante
  /\ \A id \in DOMAIN players \ Payers(b) : t.players[id] = b.players[id]
\* in the round t every participant was dealt in and kept its seat
AllTakePart(t) ==
  /\ t.turnOrder = turnOrder
  /\ \A id \in DOMAIN players : Len(t.players[id].hand) = 2
\* the round t started with the pot and the banks of the collection c
StartedWith(t, c) ==
  /\ t.pot = c.pmPot /\ t.pmPot = c.pmPot
  /\ \A id \in DOMAIN players :
        /\ t.players[id].bank = c.players[id].bank
        /\ t.players[id].totalBet = c.players[id].totalBet

StillPlaying ==
  {id \in DOMAIN players : ~players[id].isFinished /\ players[id].status # "busted"}
\* the call s ran settlement
RanSettlement(s) == s.evalCount > evalCount
\* id is finished or has a status other than ok when the call s of caller
\* reaches settlement: the call finished the caller and touched nobody else
DoneAtSettlement(s, caller, id) ==
  IF id = caller THEN s.players[id].isFinished
  ELSE players[id].isFinished \/ players[id].status # "ok"
\* every participant of seats has played when a call settles the round
SettlesAfter(seats) ==
  \A caller \in DOMAIN players :
     \A s \in {stand(Cur, caller), hit(Cur, caller), doubleDown(Cur, caller)} :
        RanSettlement(s) => \A id \in seats : DoneAtSettlement(s, caller, id)

\* C31: allPlayersFinished is true iff every participant is finished or has
\* status busted, and settlement is triggered only in a state where every
\* participant in the turn order is finished or has a status other than ok
C31_SettlementAfterAllPlayed ==
  /\ allPlayersFinished(Cur) <=> StillPlaying = {}
  /\ SettlesAfter(Elements(turnOrder))

\* C31 for the participants of the turn order whose id is defined
C31_SettlementAfterIdentifiedPlayed ==
  /\ allPlayersFinished(Cur) <=> StillPlaying = {}
  /\ SettlesAfter({id \in Elements(turnOrder) : Truthy(id)})

\* the last participant yet to play stands and the round is settled
C31_LastStandSettles ==
  \E caller \in DOMAIN players :
     /\ StillPlaying = {caller}
     /\ RanSettlement(stand(Cur, caller))

\* the dealer's stand settles the round while a participant with an
\* undefined id is neither finished nor busted
C31_SettledBeforeUnidentifiedPlayed ==
  /\ UndefinedId \in StillPlaying
  /\ players[UndefinedId].status = "ok"
  /\ UndefinedId \in Elements(turnOrder)
  /\ RanSettlement(stand(Cur, DealerId))

(***************************************************************************)
(* C32: the order of the notifications of one action                       *)
(***************************************************************************)
\* the positions, among the notifications of the call s, of those that
\* follow from the card drawn: a bust log, a turn change, a game over
Consequences(s) ==
  {j \in 1..Len(s.events) :
     \/ s.events[j].type \in {"turnchange", "gameover"}
     \/ s.events[j].type = "activitylog" /\ s.events[j].action = "busts"}
\* the positions of the participant-update notifications for id
CardUpdates(s, id) ==
  {j \in 1..Len(s.events) :
     s.events[j].type = "playerupdate" /\ s.events[j].player = id}
\* the accepted hit s of id announced the card before its consequences
CardAnnouncedFirst(s, id) ==
  s.ret => /\ Cardinality(CardUpdates(s, id)) = 1
           /\ \A u \in CardUpdates(s, id) : \A j \in Consequences(s) : u < j
\* what the call s did to the turn and to the round is among its
\* notifications when it returns
NotifiedOnReturn(s) ==
  /\ \A id \in DOMAIN players :
        (s.players[id].turn /\ ~players[id].turn)
          => \E j \in 1..Len(s.events) :
                /\ s.events[j].type = "turnchange"
                /\ s.events[j].player = id /\ s.events[j].action = "start-turn"
  /\ (isGameActive /\ ~s.isGameActive)
        => /\ EventsOfType(s, "gameover") # {}
           /\ EventsOfType(s, "statechange") # {}
\* the game-over notification of s comes before its state-change
GameOverBeforeStateChange(s) ==
  \A g \in EventsOfType(s, "gameover") :
     /\ \E c \in EventsOfType(s, "statechange") :
           g < c /\ s.events[c].action = "game-over"
     /\ \A c \in EventsOfType(s, "statechange") : g < c

\* C32: for every hit, the participant-update notification for the drawn
\* card is emitted before any bust log, turn-change or game-over notification
\* caused by that hit, all notifications caused by an action are emitted
\* before the call returns, and at settlement the game-over notification is
\* emitted before the closing state-change notification
C32_NotificationOrder ==
  /\ \A id \in DOMAIN players \cup {UnknownId} : CardAnnouncedFirst(hit(Cur, id), id)
  /\ \A s \in CallResults : NotifiedOnReturn(s) /\ GameOverBeforeStateChange(s)

\* a hit busts the participant and the round is settled in the same call
C32_HitBustsAndSettles ==
  \E id \in CanAct :
     /\ hit(Cur, id).players[id].status = "busted"
     /\ EventsOfType(hit(Cur, id), "gameover") # {}
     /\ CardUpdates(hit(Cur, id), id) # {}

(***************************************************************************)
(* C33: participant-update notifications                                   *)
(***************************************************************************)
\* the participants whose hand, bank or status the call s changed
Mutated(s) ==
  {id \in DOMAIN players :
     \/ s.players[id].hand # players[id].hand
     \/ s.players[id].bank # players[id].bank
     \/ s.players[id].status # players[id].status}
\* the call s announced every participant it changed
MutationsAnnounced(s) == \A id \in Mutated(s) : CardUpdates(s, id) # {}
\* the calls of the engine: a new round on any shoe, and the three actions
EngineCalls == CallResults \cup {start(Cur, d) : d \in Decks}

\* C33: every engine action that mutates a participant's hand, bank or
\* status (initial deal, hit, doubleDown, settlement payout) emits a
\* participant-update notification for that participant before it returns
C33_MutationsAnnounced == \A s \in EngineCalls : MutationsAnnounced(s)

\* C33 for the card a hit adds to the hand of the participant that hits
C33_HitCardAnnounced ==
  \A id \in DOMAIN players :
     hit(Cur, id).players[id].hand # players[id].hand
       => CardUpdates(hit(Cur, id), id) # {}

\* an accepted doubleDown adds a card to the hand and notifies no update
C33_DoubleDownUnannounced ==
  \E id \in CanAct :
     /\ doubleDown(Cur, id).ret
     /\ Len(doubleDown(Cur, id).players[id].hand) = 3
     /\ EventsOfType(doubleDown(Cur, id), "playerupdate") = {}

(***************************************************************************)
(* C34: the dealer rule under both deferred callbacks                      *)
(***************************************************************************)
best(hand) == calculateHandValue(hand).best
\* what the pending callbacks for id do when they fire now
CallbackResults(id) ==
  (IF timers[TimerKey("engine", id)] > 0 THEN {playTurn(Cur, id)} ELSE {})
    \cup (IF timers[TimerKey("agent", id)] > 0 THEN {agentPlayTurn(Cur, id)} ELSE {})
\* the callback s drew a card for id only on 16 or less, and finished id
\* only with 17 or more
DrawsAndStandsByRule(s, id) ==
  /\ Len(s.players[id].hand) > Len(players[id].hand) => best(players[id].hand) <= 16
  /\ (s.players[id].isFinished /\ ~players[id].isFinished)
       => best(s.players[id].hand) >= 17
  /\ (s.players[id].isFinished /\ ~players[id].isFinished
        /\ s.players[id].hand = players[id].hand) => best(players[id].hand) >= 17

\* C34: the dealer draws only when its best total is <= 16 and stands only
\* when its best total is >= 17 (or it holds blackjack), whichever of the
\* engine's and the agent's deferred callbacks acts on the dealer turn;
\* hence at settlement a dealer that took its turn has best >= 17
C34_DealerRule ==
  /\ DealerId \in DOMAIN players
       => \A s \in CallbackResults(DealerId) : DrawsAndStandsByRule(s, DealerId)
  /\ (gameStatus = "game-over" /\ DealerId \in DOMAIN players
        /\ players[DealerId].isFinished)
       => best(players[DealerId].hand) >= 17

\* both callbacks are pending on the dealer turn and the dealer has to draw
C34_BothCallbacksPending ==
  /\ isGameActive
  /\ players[DealerId].turn /\ ~players[DealerId].isFinished
  /\ timers[TimerKey("engine", DealerId)] > 0
  /\ timers[TimerKey("agent", DealerId)] > 0
  /\ best(players[DealerId].hand) <= 16

\* the round was settled after the dealer drew a card
C34_DealerDrewAndSettled ==
  /\ gameStatus = "game-over"
  /\ players[DealerId].isFinished
  /\ Len(players[DealerId].hand) > 2

(***************************************************************************)
(* C35: the soft-17 strategy                                               *)
(***************************************************************************)
\* an Ace of the hand is counted as 11 in its best total
IsSoft(hand) == BestTotal(hand) > AllAcesAsOne(hand)
TheDecision == Soft17DealerStrategy(TheValue)

\* C35: Soft17DealerStrategy decides hit on a total of 17 only when the hand
\* is soft, an Ace being counted as 11 in best; on a hard 17, including a
\* hand with an Ace counted as 1 such as {A,6,K}, it decides stand
C35_HitsOnlySoft17 ==
  BestTotal(TheHand) = 17 => (TheDecision = "hit" <=> IsSoft(TheHand))

\* on 17 the strategy decides hit exactly when the hand holds an Ace, and
\* otherwise it decides hit up to 16 and stand from 18
C35_HitsEvery17WithAce ==
  /\ BestTotal(TheHand) = 17 => (TheDecision = "hit" <=> Aces(TheHand) # {})
  /\ BestTotal(TheHand) <= 16 => TheDecision = "hit"
  /\ BestTotal(TheHand) >= 18 => TheDecision = "stand"

\* the hand {A,6,K}: a hard 17 on which the strategy decides hit
C35_HardSeventeenHit ==
  /\ Len(TheHand) = 3 /\ Aces(TheHand) # {}
  /\ BestTotal(TheHand) = 17 /\ ~IsSoft(TheHand)
  /\ TheDecision = "hit"

(***************************************************************************)
(* C36: a round reaches GameOver                                           *)
(***************************************************************************)
\* C36: with the agent attached and a shoe that does not run out, if every
\* human eventually stands or busts and every scheduled callback eventually
\* fires, a round in progress eventually reaches GameOver
C36_RoundReachesGameOver ==
  (isGameActive /\ agentGame /\ agentHandler) ~> (gameStatus = "game-over")

\* the callbacks have played the dealer to the end of a round: the dealer
\* drew, no callback is pending and the round is over
C36_DealerPlayedOut ==
  /\ gameStatus = "game-over" /\ agentGame
  /\ Len(players[DealerId].hand) > 2 /\ Len(cards) > 0
  /\ \A k \in DOMAIN timers : timers[k] = 0

(***************************************************************************)
(* C37: who holds the turn                                                 *)
(***************************************************************************)
TurnHolders == {id \in DOMAIN players : players[id].turn}

\* C37: while a round is in progress, the turn-active participant is
\* unfinished and has status ok: a participant flagged blackjack at the
\* deal, busted or finished is never given, or left holding, the turn
C37_TurnHolderCanPlay ==
  isGameActive =>
    \A id \in TurnHolders : ~players[id].isFinished /\ players[id].status = "ok"

\* C37 but for the first seat, which start() gives the turn whatever it was
\* dealt
C37_TurnHolderUnlessDealtBlackjack ==
  isGameActive =>
    \A id \in TurnHolders :
       /\ ~players[id].isFinished
       /\ \/ players[id].status = "ok"
          \/ /\ players[id].status = "blackjack"
             /\ id = turnOrder[1] /\ currentPlayerIndex = 0

\* the participant of the first seat was dealt a blackjack and holds the turn
C37_BlackjackHoldsTurn ==
  /\ isGameActive
  /\ \E id \in TurnHolders :
        /\ players[id].status = "blackjack" /\ Len(players[id].hand) = 2
        /\ id = turnOrder[1]

(***************************************************************************)
(* C38: the status of the engine                                           *)
(***************************************************************************)
\* the status is one of Init, InProgress, GameOver
ThreeStatuses == gameStatus \in {"init", "in-progress", "game-over"}
\* the status changes from Init or GameOver to InProgress by start, and from
\* InProgress to GameOver by settlement
StatusStep ==
  gameStatus' # gameStatus =>
    \/ /\ gameStatus \in {"init", "game-over"} /\ gameStatus' = "in-progress"
       /\ round' = round + 1
    \/ /\ gameStatus = "in-progress" /\ gameStatus' = "game-over"
       /\ evalCount' = evalCount + 1
\* start leaves the engine in progress and settlement leaves it over
StatusAfterStartAndSettlement ==
  /\ round' = round + 1 => gameStatus' = "in-progress"
  /\ (evalCount' = evalCount + 1 /\ DealerId \in DOMAIN players)
       => gameStatus' = "game-over"

\* C38: getGameStatus() only ever returns Init, InProgress or GameOver,
\* moving Init -> InProgress on start, InProgress -> GameOver at settlement
\* and GameOver -> InProgress on the next start, and in every reachable
\* state (under start, hit, stand, doubleDown and endGame) the active flag
\* checked by the action guards is true iff the status is InProgress
C38_StatusMachine ==
  /\ [](ThreeStatuses /\ (isGameActive <=> gameStatus = "in-progress"))
  /\ [][StatusStep /\ StatusAfterStartAndSettlement]_vars

\* C38 with the active flag implying InProgress, not the converse
C38_StatusMachineActiveImpliesInProgress ==
  /\ [](ThreeStatuses /\ (isGameActive => gameStatus = "in-progress"))
  /\ [][StatusStep /\ StatusAfterStartAndSettlement]_vars

\* endGame was called during a round: the status is InProgress and the
\* action guards reject every call
C38_EndedInProgress ==
  /\ gameStatus = "in-progress" /\ ~isGameActive
  /\ \A id \in DOMAIN players : rejected(Cur, id)

(***************************************************************************)
(* C39: the wager of a doubleDown                                          *)
(***************************************************************************)
\* the accepted doubleDown s of id raised the wager of id and, unless the
\* call went on to settle the round, left its bank lower
WagerRaised(s, id) ==
  /\ s.players[id].totalBet > players[id].totalBet
  /\ s.evalCount = evalCount =>
       ~IsInfinite(players[id].bank) /\ s.players[id].bank < players[id].bank
\* the accepted doubleDown s of id wagered the current bet of id once more
CurrentBetWageredAgain(s, id) ==
  /\ s.players[id].totalBet = players[id].totalBet + players[id].currentBet
  /\ s.players[id].currentBet = 2 * players[id].currentBet
  /\ s.evalCount = evalCount =>
       s.players[id].bank = Minus(players[id].bank, players[id].currentBet)

\* C39: an accepted doubleDown strictly increases the wager of the
\* participant: totalBet is greater than before and the bank is lower, also
\* when the only wager of the round is the ante collected by start()
C39_DoubleDownRaisesWager ==
  \A id \in NonDealers :
     doubleDown(Cur, id).ret => WagerRaised(doubleDown(Cur, id), id)

\* an accepted doubleDown wagers the current bet again, whatever it is
C39_DoubleDownWagersCurrentBet ==
  \A id \in DOMAIN players :
     doubleDown(Cur, id).ret => CurrentBetWageredAgain(doubleDown(Cur, id), id)

\* a doubleDown is accepted on the ante alone and wagers nothing
C39_DoubleDownOnAnteOnly ==
  \E id \in NonDealers :
     /\ players[id].totalBet = ante /\ players[id].currentBet = 0
     /\ doubleDown(Cur, id).ret
     /\ Len(doubleDown(Cur, id).players[id].hand) = 3
     /\ doubleDown(Cur, id).players[id].totalBet = ante
     /\ doubleDown(Cur, id).pot = pot

\* a doubleDown is accepted on a bet and wagers it again
C39_DoubleDownOnBetRaises ==
  \E id \in NonDealers :
     /\ players[id].currentBet > 0
     /\ doubleDown(Cur, id).ret
     /\ WagerRaised(doubleDown(Cur, id), id)

(***************************************************************************)
(* C40: the integrity of the roster                                        *)
(***************************************************************************)
NoDuplicateSeat ==
  \A i, j \in 1..Len(turnOrder) : i # j => turnOrder[i] # turnOrder[j]
AllSeatedExist == \A i \in 1..Len(turnOrder) : turnOrder[i] \in DOMAIN players
CursorValid ==
  Len(turnOrder) > 0 => currentPlayerIndex \in 0..(Len(turnOrder) - 1)
\* removing a participant other than the one the cursor designates leaves
\* the cursor on the same participant
RemovalKeepsCurrent ==
  \A id \in DOMAIN players :
     id # currentId(Cur) => currentId(removePlayer(Cur, id)) = currentId(Cur)

\* C40: after any sequence of addPlayer, removePlayer and setActivePlayers,
\* the turn order contains no duplicate id, every id in it refers to an
\* existing participant, the cursor is a valid index whenever the turn order
\* is non-empty, and removing a participant other than the current one
\* leaves the current participant unchanged
C40_RosterIntegrity ==
  NoDuplicateSeat /\ AllSeatedExist /\ CursorValid /\ RemovalKeepsCurrent

\* the cursor stays valid and a removal keeps the current participant; the
\* seats refer to existing participants as long as no id is seated twice
C40_IntegrityWhileSeatedOnce ==
  /\ [](CursorValid /\ RemovalKeepsCurrent)
  /\ [][(NoDuplicateSeat /\ AllSeatedExist /\ NoDuplicateSeat') => AllSeatedExist']_vars

\* two participants were added with the same id: one participant, two seats
C40_SeatedTwice ==
  /\ \E i, j \in 1..Len(turnOrder) :
        i # j /\ turnOrder[i] = turnOrder[j] /\ turnOrder[i] = AddedHuman
  /\ AddedHuman \in DOMAIN players

\* a participant seated twice was removed: a seat refers to nobody
C40_SeatOfNobody ==
  \E i \in 1..Len(turnOrder) : turnOrder[i] \notin DOMAIN players

====
